---------------------------- MODULE Spec2Model ----------------------------
(***************************************************************************)
(* A model of havJSON.hpp: the TEXT lexer, the builder, the linearizer,    *)
(* the text writer and the BIN encoder and decoder of havJSONStream, and   *)
(* the havJSONData values they read and write.                             *)
(*                                                                         *)
(* Text and binary buffers are sequences of bytes (0..255).  A position    *)
(* `index` is the zero-based index of the C++ code; At(s, index) reads it. *)
(* An operation that may throw returns a record whose field `thrown` is    *)
(* the message of the exception, or "" when it returned normally.          *)
(***************************************************************************)
EXTENDS Integers, Sequences, FiniteSets, TLC

(***************************************************************************)
(* Characters the code names as literals.                                  *)
(***************************************************************************)
CH_BS == 8
CH_TAB == 9
CH_LF == 10
CH_VT == 11
CH_FF == 12
CH_CR == 13
CH_SPACE == 32
CH_QUOTE == 34
CH_PLUS == 43
CH_COMMA == 44
CH_MINUS == 45
CH_DOT == 46
CH_SLASH == 47
CH_0 == 48
CH_9 == 57
CH_COLON == 58
CH_UPPER_A == 65
CH_UPPER_E == 69
CH_UPPER_F == 70
CH_LSQUARE == 91
CH_BACKSLASH == 92
CH_RSQUARE == 93
CH_a == 97
CH_b == 98
CH_e == 101
CH_f == 102
CH_l == 108
CH_n == 110
CH_r == 114
CH_s == 115
CH_t == 116
CH_u == 117
CH_v == 118
CH_LCURLY == 123
CH_RCURLY == 125

At(s, index) == s[index + 1]

\* A local variable that holds the result of one call: the call is made once
\* and Rest reads its result.
With(result, Rest(_)) == Rest(result)

StrTrue == <<CH_t, CH_r, CH_u, CH_e>>
StrFalse == <<CH_f, CH_a, CH_l, CH_s, CH_e>>
StrNull == <<CH_n, CH_u, CH_l, CH_l>>

(***************************************************************************)
(* havJSONTokenValue: mToken and the std::optional<std::string> mValue     *)
(* (mHasValue is has_value()).                                             *)
(***************************************************************************)
havJSONTokenValue(token, has, value) ==
    [mToken |-> token, mHasValue |-> has, mValue |-> value]

StructuralTok(token) == havJSONTokenValue(token, FALSE, <<>>)
ValuedTok(token, value) == havJSONTokenValue(token, TRUE, value)

LiteralTokens == {"Value", "Null", "Boolean", "Int", "UInt", "Long", "ULong",
                  "Int64", "UInt64", "Double"}

Thrown(msg) == [thrown |-> msg]

SkipWhitespaces(currentChar, ignoreSpace) ==
    \/ (~ignoreSpace /\ currentChar = CH_SPACE)
    \/ currentChar \in {CH_BACKSLASH, CH_SLASH, CH_BS, CH_FF, CH_LF, CH_CR,
                        CH_TAB, CH_VT}

CheckToken(currentChar) ==
    CASE currentChar = CH_LSQUARE -> "LeftSquareBracket"
      [] currentChar = CH_LCURLY -> "LeftCurlyBracket"
      [] currentChar = CH_RSQUARE -> "RightSquareBracket"
      [] currentChar = CH_RCURLY -> "RightCurlyBracket"
      [] currentChar = CH_COLON -> "Colon"
      [] currentChar = CH_COMMA -> "Comma"
      [] OTHER -> "None"

GetTokenAsCharacter(currentToken) ==
    CASE currentToken = "LeftSquareBracket" -> CH_LSQUARE
      [] currentToken = "LeftCurlyBracket" -> CH_LCURLY
      [] currentToken = "RightSquareBracket" -> CH_RSQUARE
      [] currentToken = "RightCurlyBracket" -> CH_RCURLY
      [] currentToken = "Colon" -> CH_COLON
      [] currentToken = "Comma" -> CH_COMMA
      [] OTHER -> 0

(***************************************************************************)
(* CodePointToString: the UTF-8 bytes of a code point, written into a      *)
(* zero-filled char[5] and returned as std::string(value), which stops at  *)
(* the first zero byte.                                                    *)
(***************************************************************************)
RECURSIVE CString(_)
CString(bytes) ==
    IF bytes = <<>> \/ Head(bytes) = 0 THEN <<>>
    ELSE <<Head(bytes)>> \o CString(Tail(bytes))

CodePointToString(codePoint) ==
    CString(
      IF codePoint < 128 THEN <<codePoint>>
      ELSE IF codePoint < 2048
        THEN <<(codePoint \div 64) + 192, (codePoint % 64) + 128>>
      ELSE IF codePoint < 65536
        THEN <<(codePoint \div 4096) + 224,
               ((codePoint \div 64) % 64) + 128,
               (codePoint % 64) + 128>>
      ELSE IF codePoint < 1114112
        THEN <<(codePoint \div 262144) + 240,
               ((codePoint \div 4096) % 64) + 128,
               ((codePoint \div 64) % 64) + 128,
               (codePoint % 64) + 128>>
      ELSE <<>>)

(***************************************************************************)
(* Hexadecimal text: std::hex << std::setw(w) << std::setfill('0') writes  *)
(* lower-case digits, at least w of them; std::strtol(.., 16) reads them.  *)
(***************************************************************************)
\* std::uppercase set on the stream
HexDigitUpper(d) == IF d < 10 THEN CH_0 + d ELSE CH_UPPER_A + (d - 10)

HexDigit(d) == IF d < 10 THEN CH_0 + d ELSE CH_a + (d - 10)

RECURSIVE HexText(_)
HexText(n) == IF n < 16 THEN <<HexDigit(n)>>
              ELSE Append(HexText(n \div 16), HexDigit(n % 16))

RECURSIVE PadLeft(_, _, _)
PadLeft(text, width, fill) ==
    IF Len(text) >= width THEN text ELSE PadLeft(<<fill>> \o text, width, fill)

HexSetw(n, width) == PadLeft(HexText(n), width, CH_0)

IsDigit(c) == c >= CH_0 /\ c <= CH_9
IsXDigit(c) == \/ IsDigit(c)
               \/ (c >= CH_a /\ c <= CH_f)
               \/ (c >= CH_UPPER_A /\ c <= CH_UPPER_F)

XDigitValue(c) == IF IsDigit(c) THEN c - CH_0
                  ELSE IF c >= CH_a THEN c - CH_a + 10
                  ELSE c - CH_UPPER_A + 10

RECURSIVE HexValue(_)
HexValue(text) ==
    IF text = <<>> THEN 0
    ELSE 16 * HexValue(SubSeq(text, 1, Len(text) - 1)) + XDigitValue(text[Len(text)])

(***************************************************************************)
(* ConvertToEscapedString: outgoing escaping of a UTF-8 string.  A read of *)
(* value[index] at index = size() yields '\0' (std::string::operator[]).   *)
(***************************************************************************)
ByteAt(value, index) == IF index < Len(value) THEN At(value, index) ELSE 0

\* The continuation bytes of one sequence (lines 1081-1089): the code point,
\* or -1 when a byte is not of the form 10xxxxxx.
RECURSIVE ContinuationBytes(_, _, _, _)
ContinuationBytes(value, index, remaining, codePoint) ==
    IF remaining = 0 THEN codePoint
    ELSE LET b == ByteAt(value, index + 1) IN
         IF b \div 64 # 2 THEN -1
         ELSE ContinuationBytes(value, index + 1, remaining - 1,
                                (codePoint * 64) + (b % 64))

EscapedCodePoint(codePoint) ==
    IF codePoint >= 65536 /\ codePoint <= 1114111
    THEN LET cp == codePoint - 65536
             highSurrogate == (cp \div 1024) + 55296
             lowSurrogate == (cp % 1024) + 56320
         IN  <<CH_BACKSLASH, CH_u>> \o HexSetw(highSurrogate, 4)
               \o <<CH_BACKSLASH, CH_u>> \o HexSetw(lowSurrogate, 4)
    ELSE <<CH_BACKSLASH, CH_u>> \o HexSetw(codePoint, 4)

RECURSIVE EscapeLoop(_, _, _)
EscapeLoop(value, index, resultValue) ==
    IF index >= Len(value) THEN [thrown |-> "", value |-> resultValue]
    ELSE LET c == At(value, index) IN
      IF c = CH_QUOTE
        THEN EscapeLoop(value, index + 1, resultValue \o <<CH_BACKSLASH, CH_QUOTE>>)
      ELSE IF c = CH_BACKSLASH
        THEN EscapeLoop(value, index + 1, resultValue \o <<CH_BACKSLASH, CH_BACKSLASH>>)
      ELSE IF c = CH_BS
        THEN EscapeLoop(value, index + 1, resultValue \o <<CH_BACKSLASH, CH_b>>)
      ELSE IF c = CH_FF
        THEN EscapeLoop(value, index + 1, resultValue \o <<CH_BACKSLASH, CH_f>>)
      ELSE IF c = CH_LF
        THEN EscapeLoop(value, index + 1, resultValue \o <<CH_BACKSLASH, CH_n>>)
      ELSE IF c = CH_CR
        THEN EscapeLoop(value, index + 1, resultValue \o <<CH_BACKSLASH, CH_r>>)
      ELSE IF c = CH_TAB
        THEN EscapeLoop(value, index + 1, resultValue \o <<CH_BACKSLASH, CH_t>>)
      ELSE IF c = CH_VT
        THEN EscapeLoop(value, index + 1, resultValue \o <<CH_BACKSLASH, CH_v>>)
      ELSE
        LET numOfBytes == IF c < 128 THEN 1
                          ELSE IF c \div 32 = 6 THEN 2
                          ELSE IF c \div 16 = 14 THEN 3
                          ELSE IF c \div 8 = 30 THEN 4
                          ELSE 0
            writeAsHex == IF c < 128 THEN c < 31 ELSE TRUE
            lead == IF c < 128 THEN (IF c < 31 THEN c ELSE 0)
                    ELSE IF numOfBytes = 2 THEN c % 32
                    ELSE IF numOfBytes = 3 THEN c % 16
                    ELSE c % 8
        IN IF numOfBytes = 0 THEN Thrown("Invalid UTF-8 sequence!")
           ELSE LET codePoint == ContinuationBytes(value, index, numOfBytes - 1, lead)
                IN IF codePoint = -1 THEN Thrown("Invalid UTF-8 sequence!")
                   ELSE EscapeLoop(value, index + numOfBytes,
                          IF writeAsHex THEN resultValue \o EscapedCodePoint(codePoint)
                          ELSE Append(resultValue, c))

ConvertToEscapedString(value) == EscapeLoop(value, 0, <<>>)

(***************************************************************************)
(* CheckForString: scans a string literal whose opening quote is at index. *)
(* Returns the Value token and the index of the closing quote.             *)
(***************************************************************************)
\* The loop that reads up to four hexadecimal digits after index (lines
\* 1193-1214 and 1238-1259): allHex is the flag the loop leaves.
RECURSIVE HexLoop(_, _, _, _)
HexLoop(s, index, valueIndex, hexString) ==
    IF valueIndex = 4
    THEN [thrown |-> "", allHex |-> TRUE, index |-> index, hexString |-> hexString]
    ELSE IF index + 1 >= Len(s) THEN Thrown("Read beyond end of file!")
    ELSE LET c == At(s, index + 1) IN
         IF ~IsXDigit(c)
         THEN [thrown |-> "", allHex |-> FALSE, index |-> index + 1,
               hexString |-> hexString]
         ELSE HexLoop(s, index + 1, valueIndex + 1, Append(hexString, c))

\* case 'u' (lines 1185-1322); index is the position of the 'u'.  Returns the
\* bytes added to tempValue and the index the enclosing loop increments next.
UnicodeEscape(s, index) ==
    LET first == HexLoop(s, index, 0, <<>>) IN
    IF first.thrown # "" THEN first
    ELSE IF ~first.allHex
    THEN [thrown |-> "", index |-> first.index - 1,
          bytes |-> <<CH_u>> \o first.hexString]
    ELSE
      LET codePoint == HexValue(first.hexString)
          i1 == first.index + 1
          alone(back) == [thrown |-> "", index |-> back,
                          bytes |-> CodePointToString(codePoint)]
      IN
      IF i1 >= Len(s) THEN Thrown("Read beyond end of file!")
      ELSE IF At(s, i1) # CH_BACKSLASH THEN alone(i1 - 1)
      ELSE IF i1 + 1 >= Len(s) THEN Thrown("Read beyond end of file!")
      ELSE IF At(s, i1 + 1) # CH_u THEN alone((i1 + 1) - 2)
      ELSE
        LET second == HexLoop(s, i1 + 1, 0, <<>>) IN
        IF second.thrown # "" THEN second
        ELSE IF ~second.allHex
          THEN Thrown("Invalid code point for UTF-16 low surrogate pair!")
        ELSE IF codePoint >= 55296 /\ codePoint <= 56319
          THEN LET secondCodePoint == HexValue(second.hexString) IN
               IF secondCodePoint >= 56320 /\ secondCodePoint <= 57343
               THEN [thrown |-> "", index |-> second.index,
                     bytes |-> CodePointToString(
                                 65536 + ((codePoint - 55296) * 1024)
                                       + (secondCodePoint - 56320))]
               ELSE Thrown("Invalid code point range for UTF-16 low surrogate pair!")
        ELSE alone(second.index - 6)

RECURSIVE StringLoop(_, _, _)
StringLoop(s, index, tempValue) ==
    IF index >= Len(s) THEN Thrown("Invalid string value!")
    ELSE LET currentChar == At(s, index) IN
      IF currentChar = CH_QUOTE
        THEN [thrown |-> "", index |-> index, tok |-> ValuedTok("Value", tempValue)]
      ELSE IF currentChar # CH_BACKSLASH
        THEN StringLoop(s, index + 1, Append(tempValue, currentChar))
      ELSE IF index + 1 >= Len(s) THEN Thrown("Read beyond end of file!")
      ELSE LET e == At(s, index + 1) IN
        IF e \in {CH_QUOTE, CH_BACKSLASH, CH_SLASH}
          THEN StringLoop(s, index + 2, Append(tempValue, e))
        ELSE IF e = CH_b THEN StringLoop(s, index + 2, Append(tempValue, CH_BS))
        ELSE IF e = CH_f THEN StringLoop(s, index + 2, Append(tempValue, CH_FF))
        ELSE IF e = CH_n THEN StringLoop(s, index + 2, Append(tempValue, CH_LF))
        ELSE IF e = CH_r THEN StringLoop(s, index + 2, Append(tempValue, CH_CR))
        ELSE IF e = CH_t THEN StringLoop(s, index + 2, Append(tempValue, CH_TAB))
        ELSE IF e = CH_v THEN StringLoop(s, index + 2, Append(tempValue, CH_VT))
        ELSE IF e = CH_u
          THEN With(UnicodeEscape(s, index + 1), LAMBDA esc :
                 IF esc.thrown # "" THEN Thrown(esc.thrown)
                 ELSE StringLoop(s, esc.index + 1, tempValue \o esc.bytes))
        ELSE Thrown("Invalid escape character!")

CheckForString(index, jsonStringStream) ==
    StringLoop(jsonStringStream, index + 1, <<>>)

(***************************************************************************)
(* CheckForLiteral: index is the position after the first character of the *)
(* literal; returns the index of the literal's last character.             *)
(***************************************************************************)
RECURSIVE LiteralLoop(_, _, _, _)
LiteralLoop(s, index, literalValue, tempValue) ==
    IF index >= Len(s)
    THEN IF Len(tempValue) # Len(literalValue) THEN Thrown("Invalid literal value!")
         ELSE [thrown |-> "", index |-> index, value |-> tempValue]
    ELSE LET currentChar == At(s, index) IN
         IF currentChar # At(literalValue, Len(tempValue))
         THEN Thrown("Literal value invalid")
         ELSE IF Append(tempValue, currentChar) = literalValue
         THEN [thrown |-> "", index |-> index, value |-> literalValue]
         ELSE LiteralLoop(s, index + 1, literalValue, Append(tempValue, currentChar))

CheckForLiteral(index, jsonStringStream, literalValue) ==
    LiteralLoop(jsonStringStream, index, literalValue, <<Head(literalValue)>>)

(***************************************************************************)
(* Decimal text.  Integer payloads are kept as the text std::to_string     *)
(* gives (an optional '-' and the digits without leading zeros), and the   *)
(* range checks of std::stoi/stol/stoll/stoul/stoull compare digit strings *)
(* with the limits, so no width is lost.                                   *)
(***************************************************************************)
RECURSIVE LeadingDigits(_)
LeadingDigits(text) ==
    IF text = <<>> \/ ~IsDigit(Head(text)) THEN <<>>
    ELSE <<Head(text)>> \o LeadingDigits(Tail(text))

RECURSIVE StripZeros(_)
StripZeros(digits) ==
    IF Len(digits) > 1 /\ Head(digits) = CH_0 THEN StripZeros(Tail(digits))
    ELSE digits

RECURSIVE LexLess(_, _)
LexLess(a, b) ==
    IF a = <<>> THEN FALSE
    ELSE IF Head(a) # Head(b) THEN Head(a) < Head(b)
    ELSE LexLess(Tail(a), Tail(b))

\* a < b for two digit strings without leading zeros
MagLess(a, b) == \/ Len(a) < Len(b)
                 \/ (Len(a) = Len(b) /\ LexLess(a, b))

Digits(text) == [i \in 1..Len(text) |-> CH_0 + text[i]]

Mag_2_31 == Digits(<<2, 1, 4, 7, 4, 8, 3, 6, 4, 8>>)
Mag_2_32 == Digits(<<4, 2, 9, 4, 9, 6, 7, 2, 9, 6>>)
Mag_2_63 == Digits(<<9, 2, 2, 3, 3, 7, 2, 0, 3, 6, 8, 5, 4, 7, 7, 5, 8, 0, 8>>)
Mag_2_64 == Digits(<<1, 8, 4, 4, 6, 7, 4, 4, 0, 7, 3, 7, 0, 9, 5, 5, 1, 6, 1, 6>>)

\* The width of long is the build's: the model is of a build with a long of
\* 32 bits.  The overloads of lines 287-290 need long and std::int64_t to be
\* different types, so the header does not compile where std::int64_t is
\* long.
LongIs64Bit == FALSE

\* What strtol and its family read of a text: an optional sign and the
\* longest run of digits; valid is FALSE when there is no digit
\* (std::invalid_argument).
ParseInteger(text) ==
    LET signed == text # <<>> /\ Head(text) \in {CH_MINUS, CH_PLUS}
        rest == IF signed THEN Tail(text) ELSE text
        digits == LeadingDigits(rest)
    IN  [valid |-> digits # <<>>,
         negative |-> text # <<>> /\ Head(text) = CH_MINUS,
         magnitude |-> IF digits = <<>> THEN <<>> ELSE StripZeros(digits)]

\* std::to_string of the value read
DecimalText(negative, magnitude) ==
    IF negative /\ magnitude # <<CH_0>> THEN <<CH_MINUS>> \o magnitude ELSE magnitude

\* The decimal text of the value std::stod reads, with a given number of
\* decimals, for a literal written as digits with an optional fraction (no
\* exponent) whose printed decimals are exact.
RECURSIVE PadRight(_, _, _)
PadRight(text, width, fill) ==
    IF Len(text) >= width THEN SubSeq(text, 1, width)
    ELSE PadRight(Append(text, fill), width, fill)

FixedPrecision(text, precision) ==
    LET signed == text # <<>> /\ Head(text) \in {CH_MINUS, CH_PLUS}
        rest == IF signed THEN Tail(text) ELSE text
        whole == LeadingDigits(rest)
        afterWhole == SubSeq(rest, Len(whole) + 1, Len(rest))
        fraction == IF afterWhole # <<>> /\ Head(afterWhole) = CH_DOT
                    THEN LeadingDigits(Tail(afterWhole)) ELSE <<>>
    IN  [valid |-> whole # <<>> \/ fraction # <<>>,
         text |-> (IF text # <<>> /\ Head(text) = CH_MINUS THEN <<CH_MINUS>> ELSE <<>>)
                  \o (IF whole = <<>> THEN <<CH_0>> ELSE StripZeros(whole))
                  \o <<CH_DOT>> \o PadRight(fraction, precision, CH_0)]

\* lines 1387 and 1462: std::fixed << std::setprecision(15)
FixedPrecision15(text) == FixedPrecision(text, 15)

\* std::to_string(double) prints six decimals (lines 3501, 3582)
ToStringDouble(text) == FixedPrecision(text, 6).text

(***************************************************************************)
(* CheckForNumber: value is the first character of the literal and index   *)
(* the position after it.  The literal runs up to the next ',' or          *)
(* whitespace character, whatever else it holds.                           *)
(***************************************************************************)
RECURSIVE NumberLoop(_, _, _)
NumberLoop(s, index, tempValue) ==
    IF index >= Len(s) THEN [index |-> index, tempValue |-> tempValue]
    ELSE LET currentChar == At(s, index) IN
         IF currentChar = CH_COMMA \/ SkipWhitespaces(currentChar, FALSE)
         THEN [index |-> index, tempValue |-> tempValue]
         ELSE NumberLoop(s, index + 1, Append(tempValue, currentChar))

\* CheckForNumber with std::stoi in the branch of the unsigned literals
NumberTokenSigned(tempValue) ==
    LET n == ParseInteger(tempValue) IN
    IF n.valid /\ ~MagLess(Mag_2_31, n.magnitude)
    THEN [thrown |-> "", tok |-> ValuedTok("Int", DecimalText(n.negative, n.magnitude))]
    ELSE Thrown("out_of_range")

\* CheckForNumber with the 64-bit kinds for every literal that is not zero
NumberTokenWide(tempValue) ==
    LET n == ParseInteger(tempValue) IN
    IF ~n.valid THEN Thrown("invalid_argument")
    ELSE [thrown |-> "",
          tok |-> ValuedTok(IF n.magnitude = <<CH_0>> THEN "UInt"
                            ELSE IF n.negative THEN "Int64" ELSE "UInt64",
                            DecimalText(n.negative, n.magnitude))]

NumberToken(tempValue) ==
    LET isFloat == \E i \in 1..Len(tempValue) :
                       tempValue[i] \in {CH_DOT, CH_e, CH_UPPER_E}
        n == ParseInteger(tempValue)
        m == n.magnitude
    IN
    IF isFloat
    THEN LET d == FixedPrecision15(tempValue) IN
         IF ~d.valid THEN Thrown("stod")
         ELSE [thrown |-> "", tok |-> ValuedTok("Double", d.text)]
    ELSE IF ~n.valid THEN Thrown("invalid_argument")
    ELSE IF Head(tempValue) = CH_MINUS
    THEN \* std::stoi, then std::stol, then std::stoll
         IF ~MagLess(Mag_2_31, m)
           THEN [thrown |-> "", tok |-> ValuedTok("Int", DecimalText(TRUE, m))]
         ELSE IF LongIs64Bit /\ ~MagLess(Mag_2_63, m)
           THEN [thrown |-> "", tok |-> ValuedTok("Long", DecimalText(TRUE, m))]
         ELSE IF ~MagLess(Mag_2_63, m)
           THEN [thrown |-> "", tok |-> ValuedTok("Int64", DecimalText(TRUE, m))]
         ELSE Thrown("out_of_range")
    ELSE \* std::stoul and the unsigned int range, then std::stoul, then std::stoull
         IF MagLess(m, Mag_2_32)
           THEN [thrown |-> "", tok |-> ValuedTok("UInt", DecimalText(FALSE, m))]
         ELSE IF LongIs64Bit /\ MagLess(m, Mag_2_64)
           THEN [thrown |-> "", tok |-> ValuedTok("ULong", DecimalText(FALSE, m))]
         ELSE IF MagLess(m, Mag_2_64)
           THEN [thrown |-> "", tok |-> ValuedTok("UInt64", DecimalText(FALSE, m))]
         ELSE Thrown("out_of_range")

CheckForNumber(index, jsonStringStream, value) ==
    LET scan == NumberLoop(jsonStringStream, index, <<value>>) IN
    With(NumberToken(scan.tempValue), LAMBDA r :
      IF r.thrown # "" THEN r
      ELSE [thrown |-> "", index |-> scan.index - 1, tok |-> r.tok])

(***************************************************************************)
(* CheckTypeToken: reads the next lexeme in the mode of the enclosing      *)
(* container.  It appends the structural tokens it meets to mTokens itself *)
(* and returns the lexeme read (None when the character starts no lexeme). *)
(***************************************************************************)
NumberStart == {CH_MINUS, CH_PLUS, CH_DOT, CH_COLON, CH_e, CH_UPPER_E}
                 \cup (CH_0..CH_9)
ValueStart == {CH_QUOTE, CH_t, CH_f, CH_n, CH_u} \cup NumberStart

\* lines 1641-1704 and 1764-1827: a string, a literal or a number at index
LiteralOrNumber(currentChar, index, s) ==
    IF currentChar = CH_QUOTE THEN CheckForString(index, s)
    ELSE IF currentChar \in {CH_t, CH_f, CH_n}
    THEN LET lit == CheckForLiteral(index + 1, s,
                       IF currentChar = CH_t THEN StrTrue
                       ELSE IF currentChar = CH_f THEN StrFalse ELSE StrNull)
         IN  IF lit.thrown # "" THEN lit
             ELSE [thrown |-> "", index |-> lit.index,
                   tok |-> ValuedTok(IF currentChar = CH_n THEN "Null" ELSE "Boolean",
                                     lit.value)]
    ELSE IF currentChar \in NumberStart
    THEN CheckForNumber(index + 1, s, currentChar)
    ELSE [thrown |-> "", index |-> index + 1,
          tok |-> havJSONTokenValue("Value", FALSE, <<>>)]

WithTokens(r, mTokens) ==
    IF r.thrown # "" THEN Thrown(r.thrown)
    ELSE [thrown |-> "", index |-> r.index, tok |-> r.tok, mTokens |-> mTokens]

RECURSIVE CheckTypeObject(_, _, _)
CheckTypeObject(s, index, mTokens) ==
    IF index >= Len(s)
    THEN [thrown |-> "", index |-> index, mTokens |-> mTokens,
          tok |-> StructuralTok("LeftCurlyBracket")]
    ELSE LET currentChar == At(s, index)
             token == CheckToken(currentChar)
         IN
         IF SkipWhitespaces(currentChar, FALSE)
           THEN CheckTypeObject(s, index + 1, mTokens)
         ELSE IF token # "None"
           THEN CheckTypeObject(s, index + 1, Append(mTokens, StructuralTok(token)))
         ELSE IF currentChar = CH_QUOTE
           THEN With(CheckForString(index, s), LAMBDA r :
                  IF r.thrown # "" THEN Thrown(r.thrown)
                  ELSE [thrown |-> "", index |-> r.index, mTokens |-> mTokens,
                        tok |-> ValuedTok("String", r.tok.mValue)])
         ELSE [thrown |-> "", index |-> index, mTokens |-> mTokens,
               tok |-> StructuralTok("None")]

RECURSIVE CheckTypeArray(_, _, _)
CheckTypeArray(s, index, mTokens) ==
    IF index >= Len(s)
    THEN [thrown |-> "", index |-> index, mTokens |-> mTokens,
          tok |-> StructuralTok("LeftSquareBracket")]
    ELSE LET currentChar == At(s, index) IN
         IF SkipWhitespaces(currentChar, FALSE)
           THEN CheckTypeArray(s, index + 1, mTokens)
         ELSE IF currentChar \in ValueStart
           THEN WithTokens(LiteralOrNumber(currentChar, index, s), mTokens)
         ELSE IF currentChar \in {CH_LCURLY, CH_LSQUARE}
           THEN [thrown |-> "", index |-> index,
                 mTokens |-> Append(mTokens, StructuralTok(CheckToken(currentChar))),
                 tok |-> StructuralTok(CheckToken(currentChar))]
         ELSE [thrown |-> "", index |-> index, mTokens |-> mTokens,
               tok |-> StructuralTok("None")]

RECURSIVE CheckTypeOther(_, _, _, _)
CheckTypeOther(structuralToken, s, index, mTokens) ==
    IF index >= Len(s)
    THEN [thrown |-> "", index |-> index, mTokens |-> mTokens,
          tok |-> StructuralTok(structuralToken)]
    ELSE LET currentChar == At(s, index)
             token == CheckToken(currentChar)
         IN
         IF SkipWhitespaces(currentChar, FALSE)
           THEN CheckTypeOther(structuralToken, s, index + 1, mTokens)
         ELSE IF token # "None"
           THEN [thrown |-> "", index |-> index,
                 mTokens |-> Append(mTokens, StructuralTok(token)),
                 tok |-> StructuralTok(token)]
         ELSE IF currentChar \in ValueStart
           THEN WithTokens(LiteralOrNumber(currentChar, index, s), mTokens)
         ELSE [thrown |-> "", index |-> index, mTokens |-> mTokens,
               tok |-> StructuralTok("None")]

CheckTypeToken(structuralToken, index, jsonStringStream, mTokens) ==
    IF structuralToken = "LeftCurlyBracket"
      THEN CheckTypeObject(jsonStringStream, index, mTokens)
    ELSE IF structuralToken = "LeftSquareBracket"
      THEN CheckTypeArray(jsonStringStream, index, mTokens)
    ELSE CheckTypeOther(structuralToken, jsonStringStream, index, mTokens)

(***************************************************************************)
(* Tokenization(const std::string&): the lexer.  It clears mTokens, then   *)
(* walks the text; typeTokens and typeTokenDepthLevels track the enclosing *)
(* containers.  outOfRange records a read of typeTokens[depthLevel] past   *)
(* the end of the deque (lines 2656), which std::deque does not check.     *)
(***************************************************************************)
OpeningTokens == {"LeftCurlyBracket", "LeftSquareBracket"}
ClosingTokens == {"RightCurlyBracket", "RightSquareBracket"}

\* a queue that keeps what it holds
keep(tokens) == tokens

\* mTokens.clear() (line 2603)
clear(tokens) == <<>>

\* the lexer's state before the loop: mTokens is what the stream held at the
\* call, cleared
LexerStart(mTokens) ==
    [index |-> 0, mTokens |-> clear(mTokens), currentTypeToken |-> "None",
     typeTokens |-> <<>>, typeTokenDepthLevels |-> <<>>, depthLevel |-> 0,
     outOfRange |-> FALSE, thrown |-> ""]

\* lines 2623-2639: a structural character met by the loop itself
LexStructural(st, token) ==
    IF token = "None" THEN st
    ELSE LET opened ==
               IF token \in OpeningTokens
               THEN [st EXCEPT !.currentTypeToken = token,
                               !.typeTokens = Append(@, token),
                               !.typeTokenDepthLevels =
                                   IF st.depthLevel > 0 THEN Append(@, st.depthLevel)
                                   ELSE @,
                               !.depthLevel = IF @ > 0 THEN @ + 1 ELSE @]
               ELSE st
         IN  [opened EXCEPT !.mTokens = Append(@, StructuralTok(token))]

\* lines 2644-2658: a closing bracket leaves the innermost container
LexClose(st) ==
    IF st.typeTokens = <<>> THEN st
    ELSE LET levels == st.typeTokenDepthLevels
             depth == IF levels # <<>> THEN levels[Len(levels)] ELSE 0
             inRange == depth < Len(st.typeTokens)
         IN  [st EXCEPT !.depthLevel = depth,
                        !.typeTokenDepthLevels =
                            IF levels # <<>> THEN SubSeq(levels, 1, Len(levels) - 1)
                            ELSE levels,
                        !.currentTypeToken =
                            IF inRange THEN At(st.typeTokens, depth) ELSE "None",
                        !.outOfRange = @ \/ ~inRange,
                        !.typeTokens = SubSeq(@, 1, Len(@) - 1)]

\* lines 2676-2691: what the loop does with the lexeme CheckTypeToken returns
LexTypeToken(st, r) ==
    LET at == [st EXCEPT !.index = r.index, !.mTokens = r.mTokens] IN
    IF r.tok.mToken = "None" THEN at
    ELSE IF r.tok.mToken \in OpeningTokens
    THEN [at EXCEPT !.currentTypeToken = r.tok.mToken,
                    !.typeTokens = Append(@, r.tok.mToken),
                    !.typeTokenDepthLevels = Append(@, st.depthLevel),
                    !.depthLevel = @ + 1]
    ELSE [at EXCEPT !.mTokens = Append(@, r.tok)]

\* one iteration of the loop of line 2612, with the ++index that ends it; an
\* exception leaves the loop with thrown set
LexIteration(s, st) ==
    LET currentChar == At(s, st.index)
        token == CheckToken(currentChar)
        st1 == LexStructural(st, token)
    IN
    IF SkipWhitespaces(currentChar, FALSE)
      THEN [st EXCEPT !.index = @ + 1]
    ELSE IF token \in ClosingTokens
      THEN [LexClose(st1) EXCEPT !.index = @ + 1]
    ELSE
      LET token2 == IF token = "Comma" THEN st1.currentTypeToken ELSE token
          token3 == IF token2 = "None" THEN st1.currentTypeToken ELSE token2
          from == IF token2 = "None" THEN st.index ELSE st.index + 1
      IN  With(CheckTypeToken(token3, from, s, st1.mTokens), LAMBDA r :
            IF r.thrown # "" THEN [st1 EXCEPT !.thrown = r.thrown]
            ELSE [LexTypeToken(st1, r) EXCEPT !.index = @ + 1])

RECURSIVE LexLoop(_, _)
LexLoop(s, st) ==
    IF st.index >= Len(s) THEN st
    ELSE With(LexIteration(s, st), LAMBDA next :
           IF next.thrown # "" THEN next ELSE LexLoop(s, next))

\* The result: thrown, the tokens left in mTokens, and the value returned.
Tokenization(mTokens, jsonStringStream) ==
    With(LexLoop(jsonStringStream, LexerStart(mTokens)), LAMBDA st :
      [thrown |-> st.thrown, mTokens |-> st.mTokens,
       returned |-> Len(st.mTokens) > 0, outOfRange |-> st.outOfRange])

(***************************************************************************)
(* havJSONData.  A value is [type, val, items]: val is the payload of a    *)
(* scalar as the text std::to_string (or the string itself) gives, items   *)
(* the children of a container as [key, value] records.  An Array keeps    *)
(* insertion order with empty keys; an Object is a std::map, so its items  *)
(* are sorted by key and keys are unique.                                  *)
(***************************************************************************)
havJSONData(type, val) == [type |-> type, val |-> val, items |-> <<>>]
Container(type, items) == [type |-> type, val |-> <<>>, items |-> items]
NullValue == havJSONData("Null", StrNull)

RECURSIVE KeyLess(_, _)
KeyLess(a, b) ==
    IF b = <<>> THEN FALSE
    ELSE IF a = <<>> THEN TRUE
    ELSE IF Head(a) # Head(b) THEN Head(a) < Head(b)
    ELSE KeyLess(Tail(a), Tail(b))

HasKey(items, key) == \E i \in 1..Len(items) : items[i].key = key
KeyIndex(items, key) == CHOOSE i \in 1..Len(items) : items[i].key = key

\* a container that keeps its members in the order of insertion
MapInsertLast(items, item) ==
    IF HasKey(items, item.key) THEN items ELSE Append(items, item)

\* std::map::insert: an existing key keeps its mapped value
RECURSIVE MapInsert(_, _)
MapInsert(items, item) ==
    IF HasKey(items, item.key) THEN items
    ELSE IF items = <<>> \/ KeyLess(item.key, Head(items).key)
      THEN <<item>> \o items
    ELSE <<Head(items)>> \o MapInsert(Tail(items), item)

\* lines 2977-3018 and 3085-3126: the value a literal token stands for
TokenToData(token) ==
    IF token.mToken = "Null" THEN havJSONData("Null", token.mValue)
    ELSE IF token.mToken = "Boolean"
      THEN havJSONData("Boolean", IF token.mValue = StrTrue THEN StrTrue ELSE StrFalse)
    ELSE IF token.mToken \in {"Int", "UInt", "Long", "ULong", "Int64", "UInt64"}
      THEN LET n == ParseInteger(token.mValue) IN
           havJSONData(token.mToken, DecimalText(n.negative, n.magnitude))
    ELSE IF token.mToken = "Double"
      THEN havJSONData("Double", ToStringDouble(token.mValue))
    ELSE havJSONData("String", token.mValue)

(***************************************************************************)
(* ParseJSONContents: the tree builder.  The nodes it allocates are kept   *)
(* in heap (a node is [type, val, items], items holding [key, id]);        *)
(* tokenTypeReferences is the stack of node ids and rootNode is 0 for      *)
(* nullptr.  The builder reads mTokens.front() and                         *)
(* tokenTypeReferences.back() without checking for emptiness; such a read  *)
(* has undefined behaviour and ends the run with kind "undefined".         *)
(***************************************************************************)
BuilderStart(mTokens) ==
    [mTokens |-> mTokens, heap |-> <<>>, tokenTypeReferences |-> <<>>, rootNode |-> 0]

PopFront(p) == [p EXCEPT !.mTokens = Tail(@)]
Back(p) == p.tokenTypeReferences[Len(p.tokenTypeReferences)]
BackType(p) == p.heap[Back(p)].type
PopBack(p) ==
    [p EXCEPT !.tokenTypeReferences = SubSeq(@, 1, Len(@) - 1)]

RECURSIVE Materialise(_, _)
Materialise(heap, id) ==
    [type |-> heap[id].type, val |-> heap[id].val,
     items |-> [i \in 1..Len(heap[id].items) |->
                  [key |-> heap[id].items[i].key,
                   value |-> Materialise(heap, heap[id].items[i].id)]]]

RootOf(p) == IF p.rootNode = 0 THEN NullValue ELSE Materialise(p.heap, p.rootNode)

Outcome(kind, thrown, p) ==
    [kind |-> kind, thrown |-> thrown, root |-> RootOf(p), mTokens |-> p.mTokens]

\* lines 2851-2857 and 2906-2912
NewRoot(p, type) ==
    [p EXCEPT !.heap = Append(@, Container(type, <<>>)),
              !.rootNode = Len(p.heap) + 1,
              !.tokenTypeReferences = Append(@, Len(p.heap) + 1)]

\* lines 2842-2847 and 2897-2902: a container appended to the array on top
PushChild(p, type) ==
    LET id == Len(p.heap) + 1 IN
    [p EXCEPT !.heap = Append([@ EXCEPT ![Back(p)].items =
                                   Append(@, [key |-> <<>>, id |-> id])],
                              Container(type, <<>>)),
              !.tokenTypeReferences = Append(@, id)]

\* lines 3130: a literal appended to the array on top
PushLiteral(p, data) ==
    LET id == Len(p.heap) + 1 IN
    [p EXCEPT !.heap = Append([@ EXCEPT ![Back(p)].items =
                                   Append(@, [key |-> <<>>, id |-> id])], data)]

\* lines 3022, 3038, 3056: insert under key into the object on top; id is the
\* node the key maps to afterwards
InsertMember(p, key, data) ==
    LET items == p.heap[Back(p)].items
        fresh == Len(p.heap) + 1
    IN  IF HasKey(items, key)
        THEN [p |-> p, id |-> items[KeyIndex(items, key)].id]
        ELSE [p |-> [p EXCEPT !.heap =
                         Append([@ EXCEPT ![Back(p)].items =
                                     MapInsert(@, [key |-> key, id |-> fresh])],
                                data)],
              id |-> fresh]

AllowedAfterCurly ==
    {"String", "Colon", "Comma", "RightCurlyBracket",
     "LeftCurlyBracket", "LeftSquareBracket"} \cup LiteralTokens
AllowedAfterSquare ==
    {"Comma", "RightSquareBracket", "LeftSquareBracket", "LeftCurlyBracket"}
        \cup LiteralTokens


\* the iteration is over and the loop of line 2824 tests its condition again
Continue(p) == [kind |-> "continue", p |-> p]

\* lines 3070-3139: a literal outside a member goes to the array on top;
\* then the token is dropped
ParseElement(p, token) ==
    IF token.mToken \in LiteralTokens
    THEN IF ~token.mHasValue THEN Outcome("thrown", "bad_optional_access", p)
         ELSE IF p.tokenTypeReferences = <<>> THEN Outcome("undefined", "", p)
         ELSE IF BackType(p) = "Array"
           THEN Continue(PopFront(PushLiteral(p, TokenToData(token))))
         ELSE Outcome("thrown", "Invalid token! Expected array!", p)
    ELSE Continue(PopFront(p))

\* lines 2952-3068: a String token is a key when a Colon follows it
ParseMember(p, token) ==
    LET key == token.mValue
        p1 == PopFront(p)
    IN
    IF p1.mTokens = <<>> THEN Outcome("undefined", "", p1)
    ELSE IF Head(p1.mTokens).mToken # "Colon"
      THEN ParseElement(p1, Head(p1.mTokens))
    ELSE
      LET p2 == PopFront(p1) IN
      IF p2.mTokens = <<>> THEN Outcome("undefined", "", p2)
      ELSE
        LET value == Head(p2.mTokens) IN
        IF value.mToken \in LiteralTokens
        THEN IF ~value.mHasValue THEN Outcome("thrown", "bad_optional_access", p2)
             ELSE IF p2.tokenTypeReferences = <<>> THEN Outcome("undefined", "", p2)
             ELSE IF BackType(p2) = "Object"
               THEN Continue(PopFront(InsertMember(p2, key, TokenToData(value)).p))
             ELSE Outcome("thrown", "Invalid token! Expected object!", p2)
        ELSE IF value.mToken \in OpeningTokens
        THEN IF p2.tokenTypeReferences = <<>> THEN Outcome("undefined", "", p2)
             ELSE IF BackType(p2) = "Object"
               THEN LET ins == InsertMember(p2, key,
                                  Container(IF value.mToken = "LeftCurlyBracket"
                                            THEN "Object" ELSE "Array", <<>>))
                    IN  Continue(PopFront(
                            [ins.p EXCEPT !.tokenTypeReferences = Append(@, ins.id)]))
             ELSE Outcome("thrown", "Invalid token! Expected object!", p2)
        ELSE ParseElement(p2, value)

\* lines 2943-2952: a closing bracket pops the stack of open containers
ParseRest(p, token) ==
    IF token.mToken \in ClosingTokens /\ p.tokenTypeReferences = <<>>
      THEN Outcome("undefined", "", p)
    ELSE LET p1 == IF token.mToken \in ClosingTokens THEN PopBack(p) ELSE p IN
         IF token.mToken = "String" THEN ParseMember(p1, token)
         ELSE ParseElement(p1, token)

\* lines 2836-2888 and 2891-2941: an opening bracket at the head of mTokens
ParseOpen(p, opening) ==
    LET type == IF opening = "LeftCurlyBracket" THEN "Object" ELSE "Array" IN
    IF p.rootNode # 0 /\ p.tokenTypeReferences = <<>>
      THEN Outcome("undefined", "", p)
    ELSE
      LET p1 == IF p.rootNode = 0 THEN NewRoot(p, type)
                ELSE IF BackType(p) = "Array" THEN PushChild(p, type)
                ELSE p
          p2 == PopFront(p1)
      IN
      IF p2.mTokens = <<>> THEN Outcome("undefined", "", p2)
      ELSE
        LET token == Head(p2.mTokens) IN
        IF token.mToken \notin (IF opening = "LeftCurlyBracket"
                                THEN AllowedAfterCurly ELSE AllowedAfterSquare)
          THEN Outcome("false", "", p2)
        ELSE IF token.mToken \in OpeningTokens THEN Continue(p2)
        ELSE ParseRest(p2, token)

\* lines 2826-3139: one iteration of the loop, on a queue that is not empty;
\* the result is Continue(p) or the Outcome that leaves the loop
ParseIteration(p) ==
    LET token == Head(p.mTokens) IN
    IF token.mToken = "Comma" THEN Continue(PopFront(p))
    ELSE IF token.mToken \in OpeningTokens THEN ParseOpen(p, token.mToken)
    ELSE ParseRest(p, token)

\* lines 2824 and 3140-3150
RECURSIVE ParseLoop(_)
ParseLoop(p) ==
    IF p.mTokens = <<>>
    THEN IF p.rootNode = 0 THEN Outcome("thrown", "No root node found!", p)
         ELSE Outcome("true", "", p)
    ELSE With(ParseIteration(p), LAMBDA r :
           IF r.kind = "continue" THEN ParseLoop(r.p) ELSE r)

\* kind is "true" or "false" for the value returned, "thrown" for an
\* exception, "undefined" when the run read an empty container; root is the
\* tree built so far and mTokens what is left of the token stream.
ParseJSONContents(mTokens) ==
    IF mTokens = <<>> THEN Outcome("false", "", BuilderStart(mTokens))
    ELSE IF mTokens[1].mToken \notin OpeningTokens
      THEN Outcome("false", "", BuilderStart(mTokens))
    ELSE ParseLoop(BuilderStart(mTokens))

\* ParseContent without the reset of the output on its false path
ParseContentKeepsOutput(mTokens, fileContents, valueNode) ==
    With(Tokenization(mTokens, fileContents), LAMBDA lexed :
      IF lexed.thrown # ""
        THEN [kind |-> "thrown", thrown |-> lexed.thrown, valueNode |-> valueNode,
              mTokens |-> lexed.mTokens, rootNode |-> NullValue]
      ELSE IF lexed.outOfRange
        THEN [kind |-> "undefined", thrown |-> "", valueNode |-> valueNode,
              mTokens |-> lexed.mTokens, rootNode |-> NullValue]
      ELSE IF ~lexed.returned
        THEN [kind |-> "false", thrown |-> "", valueNode |-> valueNode,
              mTokens |-> lexed.mTokens, rootNode |-> NullValue]
      ELSE With(ParseJSONContents(lexed.mTokens), LAMBDA built :
        IF built.kind = "true"
          THEN [kind |-> "true", thrown |-> "", valueNode |-> built.root,
                mTokens |-> built.mTokens, rootNode |-> built.root]
        ELSE IF built.kind = "false"
          THEN [kind |-> "false", thrown |-> "", valueNode |-> valueNode,
                mTokens |-> built.mTokens, rootNode |-> built.root]
        ELSE [kind |-> built.kind, thrown |-> built.thrown, valueNode |-> valueNode,
              mTokens |-> built.mTokens, rootNode |-> built.root]))

(***************************************************************************)
(* ParseContent: lexer, then builder.  A false from either sets the output *)
(* to Null; an exception leaves the output as it was.  rootNode is the     *)
(* tree the builder holds when it stops.                                   *)
(***************************************************************************)
ParseContent(mTokens, fileContents, valueNode) ==
    With(Tokenization(mTokens, fileContents), LAMBDA lexed :
      IF lexed.thrown # ""
        THEN [kind |-> "thrown", thrown |-> lexed.thrown, valueNode |-> valueNode,
              mTokens |-> lexed.mTokens, rootNode |-> NullValue]
      ELSE IF lexed.outOfRange
        THEN [kind |-> "undefined", thrown |-> "", valueNode |-> valueNode,
              mTokens |-> lexed.mTokens, rootNode |-> NullValue]
      ELSE IF ~lexed.returned
        THEN [kind |-> "false", thrown |-> "", valueNode |-> NullValue,
              mTokens |-> lexed.mTokens, rootNode |-> NullValue]
      ELSE With(ParseJSONContents(lexed.mTokens), LAMBDA built :
        IF built.kind = "true"
          THEN [kind |-> "true", thrown |-> "", valueNode |-> built.root,
                mTokens |-> built.mTokens, rootNode |-> built.root]
        ELSE IF built.kind = "false"
          THEN [kind |-> "false", thrown |-> "", valueNode |-> NullValue,
                mTokens |-> built.mTokens, rootNode |-> built.root]
        ELSE [kind |-> built.kind, thrown |-> built.thrown, valueNode |-> valueNode,
              mTokens |-> built.mTokens, rootNode |-> built.root]))

(***************************************************************************)
(* Tokenization(havJSONData&, tokens): the token stream of a tree.         *)
(***************************************************************************)
\* the token of a scalar (the cases of lines 3468-3506 and 3549-3587)
ScalarToken(data) ==
    IF data.type = "String" THEN ValuedTok("Value", data.val)
    ELSE IF data.type = "Boolean"
      THEN ValuedTok("Boolean", IF data.val = StrTrue THEN StrTrue ELSE StrFalse)
    ELSE ValuedTok(data.type, data.val)

RECURSIVE TokenizeItems(_, _, _)
TokenizeArray(rootArray) ==
    TokenizeItems(rootArray, 1, FALSE) \o <<StructuralTok("RightSquareBracket")>>
TokenizeObject(rootObject) ==
    TokenizeItems(rootObject, 1, TRUE) \o <<StructuralTok("RightCurlyBracket")>>

\* the loop bodies of TokenizeArray and TokenizeObject, from item index on
TokenizeItems(items, index, isObject) ==
    IF index > Len(items) THEN <<>>
    ELSE LET item == items[index].value IN
         (IF index > 1 THEN <<StructuralTok("Comma")>> ELSE <<>>)
         \o (IF isObject
             THEN <<ValuedTok("String", items[index].key), StructuralTok("Colon")>>
             ELSE <<>>)
         \o (IF item.type = "Array"
               THEN <<StructuralTok("LeftSquareBracket")>> \o TokenizeArray(item.items)
             ELSE IF item.type = "Object"
               THEN <<StructuralTok("LeftCurlyBracket")>> \o TokenizeObject(item.items)
             ELSE <<ScalarToken(item)>>)
         \o TokenizeItems(items, index + 1, isObject)

TokenizationOfTree(rootNode) ==
    IF rootNode.type = "Array"
      THEN [thrown |-> "",
            tokens |-> <<StructuralTok("LeftSquareBracket")>>
                         \o TokenizeArray(rootNode.items)]
    ELSE IF rootNode.type = "Object"
      THEN [thrown |-> "",
            tokens |-> <<StructuralTok("LeftCurlyBracket")>>
                         \o TokenizeObject(rootNode.items)]
    ELSE [thrown |-> "Invalid token: Expected array or object as root node!",
          tokens |-> <<>>]

(***************************************************************************)
(* ConvertJSONToString: the text of a tree, compact or formatted.          *)
(***************************************************************************)
Piece(cond, text) == IF cond THEN text ELSE <<>>
Spaces(n) == [i \in 1..n |-> CH_SPACE]
NewLine == <<CH_LF>>
NewLineIndent(tokenTypesSize) == NewLine \o Spaces(tokenTypesSize * 4)

\* lines 3699-3874: what precedes a token inside an array
FormatInArray(previousToken, token, tokenTypesSize) ==
    LET nli == NewLineIndent(tokenTypesSize)
        lit == token \in LiteralTokens
        prevLit == previousToken \in LiteralTokens
    IN
    Piece(previousToken = "LeftSquareBracket", nli)
    \o Piece(previousToken = "RightSquareBracket" /\ token = "RightCurlyBracket", nli)
    \o Piece(previousToken \in {"Colon", "Comma"} /\ token = "LeftCurlyBracket",
             <<CH_SPACE>>)
    \o Piece(previousToken = "LeftCurlyBracket", nli)
    \o Piece(previousToken = "RightCurlyBracket" /\ token = "RightSquareBracket", nli)
    \o Piece(previousToken \in {"Colon", "Comma"} /\ token = "LeftSquareBracket",
             <<CH_SPACE>>)
    \o Piece(token = "String" /\ previousToken = "Comma", nli)
    \o Piece(previousToken = "Colon" /\ lit, <<CH_SPACE>>)
    \o Piece(previousToken = "Comma" /\ lit, nli)
    \o Piece(lit /\ previousToken \in ClosingTokens, Spaces(tokenTypesSize * 4))
    \o Piece(prevLit /\ token \in ClosingTokens, nli)

\* lines 3876-4070: what precedes a token inside an object
FormatInObject(previousToken, token, tokenTypesSize) ==
    LET nli == NewLineIndent(tokenTypesSize)
        lit == token \in LiteralTokens
        prevLit == previousToken \in LiteralTokens
    IN
    Piece(previousToken = "LeftSquareBracket" /\ token = "LeftCurlyBracket", NewLine)
    \o Piece(previousToken = "RightSquareBracket" /\ token = "RightSquareBracket", nli)
    \o Piece(previousToken = "RightCurlyBracket" /\ token = "RightSquareBracket", nli)
    \o Piece(previousToken \in {"Comma", "LeftCurlyBracket"}, NewLine)
    \o Piece(previousToken = "RightSquareBracket" /\ token = "RightCurlyBracket",
             NewLine)
    \o Piece(previousToken = "LeftSquareBracket" /\ (lit \/ token = "String"), nli)
    \o Piece(previousToken = "Comma" /\ lit, NewLine)
    \o Piece(previousToken = "Colon" /\ token = "LeftCurlyBracket", <<CH_SPACE>>)
    \o Piece(previousToken = "RightCurlyBracket" /\ token = "RightCurlyBracket",
             NewLine)
    \o Piece(prevLit /\ token \in ClosingTokens, nli)
    \o Piece(previousToken = "Colon" /\ token = "LeftSquareBracket", <<CH_SPACE>>)
    \o Piece(/\ previousToken # "Colon" /\ ~lit /\ token \notin {"Colon", "Comma"}
             /\ ~prevLit /\ token # "RightSquareBracket",
             Spaces(tokenTypesSize * 4))
    \o Piece(previousToken \in {"Comma", "Colon"} /\ lit, <<CH_SPACE>>)

\* lines 4073-4106: the text of the token itself
TokenText(token) ==
    IF token.mToken \in {"String", "Value"}
    THEN With(ConvertToEscapedString(token.mValue), LAMBDA escaped :
           [thrown |-> escaped.thrown,
            text |-> <<CH_QUOTE>> \o escaped.value \o <<CH_QUOTE>>])
    ELSE IF token.mToken \in LiteralTokens
    THEN [thrown |-> "", text |-> token.mValue]
    ELSE [thrown |-> "", text |-> <<GetTokenAsCharacter(token.mToken)>>]

RECURSIVE WriteLoop(_, _, _, _)
WriteLoop(tokens, index, formatted, w) ==
    IF index > Len(tokens) THEN w
    ELSE
      LET token == tokens[index]
          closing == token.mToken \in ClosingTokens
          currentType == IF closing THEN w.tokenTypes[Len(w.tokenTypes)]
                         ELSE w.currentType
          tokenTypes == IF closing
                        THEN SubSeq(w.tokenTypes, 1, Len(w.tokenTypes) - 1)
                        ELSE w.tokenTypes
          format == IF ~formatted THEN <<>>
                    ELSE IF currentType = "Array"
                      THEN FormatInArray(w.previousToken, token.mToken, Len(tokenTypes))
                    ELSE IF currentType = "Object"
                      THEN FormatInObject(w.previousToken, token.mToken, Len(tokenTypes))
                    ELSE <<>>
          opened == IF token.mToken = "LeftCurlyBracket" THEN "Object"
                    ELSE IF token.mToken = "LeftSquareBracket" THEN "Array"
                    ELSE ""
      IN
      With(TokenText(token), LAMBDA text :
        IF text.thrown # "" THEN [w EXCEPT !.thrown = text.thrown]
        ELSE WriteLoop(tokens, index + 1, formatted,
               [thrown |-> "",
                text |-> w.text \o format \o text.text,
                previousToken |-> token.mToken,
                currentType |-> IF opened # "" THEN opened ELSE currentType,
                tokenTypes |-> IF opened # "" THEN Append(tokenTypes, opened)
                               ELSE tokenTypes]))

\* returned is the bool the function returns; text is what it appended to
\* jsonContentsAsString.
ConvertJSONToString(valueNode, formatted) ==
    LET lexed == TokenizationOfTree(valueNode) IN
    IF lexed.thrown # ""
    THEN [thrown |-> lexed.thrown, returned |-> FALSE, text |-> <<>>]
    ELSE With(WriteLoop(lexed.tokens, 1, formatted,
                [thrown |-> "", text |-> <<>>, previousToken |-> "None",
                 currentType |-> IF lexed.tokens[1].mToken = "LeftCurlyBracket"
                                 THEN "Object" ELSE "Array",
                 tokenTypes |-> <<>>]),
              LAMBDA w :
                [thrown |-> w.thrown, returned |-> w.thrown = "", text |-> w.text])


(***************************************************************************)
(* Integers in BIN.  Values are kept as decimal text; these operators give *)
(* the little-endian two's complement bytes the encoder writes (std::hex   *)
(* of the value, two digits at a time from the right) and the text         *)
(* std::to_string gives of the bytes the decoder reads.                    *)
(***************************************************************************)
\* long division of a digit string by 256
RECURSIVE DivMod256(_, _, _)
DivMod256(digits, rem, quot) ==
    IF digits = <<>> THEN [quot |-> StripZeros(quot), rem |-> rem]
    ELSE LET cur == rem * 10 + (Head(digits) - CH_0) IN
         DivMod256(Tail(digits), cur % 256, Append(quot, CH_0 + (cur \div 256)))

RECURSIVE MagnitudeBytes(_, _)
MagnitudeBytes(digits, width) ==
    IF width = 0 THEN <<>>
    ELSE LET dm == DivMod256(digits, 0, <<CH_0>>) IN
         <<dm.rem>> \o MagnitudeBytes(dm.quot, width - 1)

\* bytes + 1, little-endian, wrapping at the width
RECURSIVE Increment(_)
Increment(bytes) ==
    IF bytes = <<>> THEN <<>>
    ELSE IF Head(bytes) = 255 THEN <<0>> \o Increment(Tail(bytes))
    ELSE <<Head(bytes) + 1>> \o Tail(bytes)

Negate(bytes) == Increment([i \in 1..Len(bytes) |-> 255 - bytes[i]])

LittleEndian(negative, magnitude, width) ==
    IF negative THEN Negate(MagnitudeBytes(magnitude, width))
    ELSE MagnitudeBytes(magnitude, width)

\* digits * 256 + carry, digits being a decimal string
RECURSIVE MulAdd256(_, _)
MulAdd256(digits, carry) ==
    IF digits = <<>>
    THEN IF carry = 0 THEN <<>> ELSE MulAdd256(<<>>, carry \div 10) \o <<CH_0 + (carry % 10)>>
    ELSE LET v == (digits[Len(digits)] - CH_0) * 256 + carry IN
         MulAdd256(SubSeq(digits, 1, Len(digits) - 1), v \div 10) \o <<CH_0 + (v % 10)>>

RECURSIVE MagnitudeText(_)
MagnitudeText(bytes) ==
    IF bytes = <<>> THEN <<CH_0>>
    ELSE StripZeros(MulAdd256(MagnitudeText(Tail(bytes)), Head(bytes)))

\* std::to_string of the integer held in little-endian bytes
IntegerText(bytes, signed) ==
    IF signed /\ bytes[Len(bytes)] >= 128
    THEN <<CH_MINUS>> \o MagnitudeText(Negate(bytes))
    ELSE MagnitudeText(bytes)


(***************************************************************************)
(* The eight bytes of a double, for the doubles the model handles: whole   *)
(* numbers below 2^31 (the text may carry a fraction of zeros).  The       *)
(* encoder prints the bit pattern with std::hex and no width, so the hex   *)
(* text of 0.0 is "0".                                                     *)
(***************************************************************************)
RECURSIVE Log2(_)
Log2(n) == IF n < 2 THEN 0 ELSE 1 + Log2(n \div 2)

RECURSIVE Pow2(_)
Pow2(e) == IF e = 0 THEN 1 ELSE 2 * Pow2(e - 1)

\* the decimal digits of a natural number
RECURSIVE DecimalDigits(_)
DecimalDigits(n) ==
    IF n < 10 THEN <<CH_0 + n>> ELSE DecimalDigits(n \div 10) \o <<CH_0 + (n % 10)>>

RECURSIVE WholeValue(_, _)
WholeValue(digits, acc) ==
    IF digits = <<>> THEN acc
    ELSE WholeValue(Tail(digits), acc * 10 + (Head(digits) - CH_0))

\* the 64 bits, most significant first
DoubleBits(negative, n) ==
    LET e == Log2(n)
        field == IF n = 0 THEN 0 ELSE 1023 + e
        rest == IF n = 0 THEN 0 ELSE n - Pow2(e)
    IN  [i \in 1..64 |->
           IF i = 1 THEN (IF negative THEN 1 ELSE 0)
           ELSE IF i <= 12 THEN (field \div Pow2(12 - i)) % 2
           ELSE IF i - 12 <= e THEN (rest \div Pow2(e - (i - 12))) % 2
           ELSE 0]

Nibble(bits, k) == 8 * bits[4*k - 3] + 4 * bits[4*k - 2] + 2 * bits[4*k - 1] + bits[4*k]

RECURSIVE StripLeading(_, _)
StripLeading(text, c) ==
    IF Len(text) > 1 /\ Head(text) = c THEN StripLeading(Tail(text), c) ELSE text

\* std::hex of the bit pattern of std::stod(text) (lines 4534-4540)
DoubleHexText(text) ==
    LET negative == text # <<>> /\ Head(text) = CH_MINUS
        whole == LeadingDigits(IF text # <<>> /\ Head(text) \in {CH_MINUS, CH_PLUS}
                               THEN Tail(text) ELSE text)
        bits == DoubleBits(negative, WholeValue(whole, 0))
    IN  StripLeading([k \in 1..16 |-> HexDigit(Nibble(bits, k))], CH_0)

\* lines 4263-4269, 4463-4468, 4542-4547: the bytes of a hex text, two digits
\* at a time from the right; a leading odd digit is left out
RECURSIVE HexPairsReversed(_)
HexPairsReversed(hex) ==
    IF Len(hex) < 2 THEN <<>>
    ELSE <<16 * XDigitValue(hex[Len(hex) - 1]) + XDigitValue(hex[Len(hex)])>>
         \o HexPairsReversed(SubSeq(hex, 1, Len(hex) - 2))

\* the double the decoder reads from eight little-endian bytes, printed with
\* std::fixed << std::setprecision(15) (lines 2276-2282); whole is FALSE when
\* the bytes hold no whole number below 2^31
DoubleText(bytes) ==
    LET bits == [i \in 1..64 |-> (bytes[8 - ((i - 1) \div 8)] \div Pow2(7 - ((i - 1) % 8))) % 2]
        field == LET F[i \in 1..12] == IF i = 1 THEN 0 ELSE 2 * F[i - 1] + bits[i]
                 IN  F[12]
        e == field - 1023
        zero == \A i \in 2..64 : bits[i] = 0
        whole == zero \/ (e \in 0..30 /\ \A i \in 13..64 : i - 12 > e => bits[i] = 0)
        n == IF zero \/ ~whole THEN 0
             ELSE LET M[i \in 12..(12 + e)] == IF i = 12 THEN 1 ELSE 2 * M[i - 1] + bits[i]
                  IN  M[12 + e]
    IN  [whole |-> whole,
         text |-> (IF bits[1] = 1 THEN <<CH_MINUS>> ELSE <<>>)
                  \o DecimalDigits(n)
                  \o <<CH_DOT>> \o PadRight(<<>>, 15, CH_0)]


(***************************************************************************)
(* ConvertJSONToBSON: the BIN bytes of a tree.  The function appends to    *)
(* the vector it is given (jsonContentsAsBinaryStream) and inserts the     *)
(* length of an array at the file index it recorded when the array opened. *)
(***************************************************************************)
\* lines 4183-4209: Colon and Comma dropped, integer kinds narrowed
RECURSIVE BSONTokens(_)
BSONTokens(tokens) ==
    IF tokens = <<>> THEN <<>>
    ELSE LET t == Head(tokens) IN
         IF t.mToken \in {"Colon", "Comma"} THEN BSONTokens(Tail(tokens))
         ELSE <<[t EXCEPT !.mToken = IF @ = "UInt" THEN "Int"
                                     ELSE IF @ = "Long" THEN "Int64"
                                     ELSE IF @ = "ULong" THEN "UInt64"
                                     ELSE @]>> \o BSONTokens(Tail(tokens))

havJSONBSONDataType(type, indexToWriteTotalSizeTo, arrayTotalSize) ==
    [mDataType |-> type, mIndexToWriteTotalSizeTo |-> indexToWriteTotalSizeTo,
     mArrayTotalSize |-> arrayTotalSize, mCurrentArrayItemIndex |-> 0]

\* lines 4312-4356: the element tag, taken from the token after a key
BSONTag(token) ==
    CASE token = "Value" -> <<2>>
      [] token = "Null" -> <<10>>
      [] token = "Boolean" -> <<8>>
      [] token = "Int" -> <<16>>
      [] token = "UInt64" -> <<17>>
      [] token = "Int64" -> <<18>>
      [] token = "Double" -> <<1>>
      [] token = "LeftSquareBracket" -> <<4>>
      [] OTHER -> <<>>

\* lines 4378-4388 and 4402-4412: the first width bytes of text, zero-padded
ZeroPadded(text, width) ==
    [i \in 1..width |-> IF i <= Len(text) THEN text[i] ELSE 0]

\* lines 4399-4412: the four bytes written before a string of size bytes
LengthField(size) == ZeroPadded(CodePointToString(size + 1), 4)

\* lines 4395-4602: the bytes of the token itself
BSONPayload(token) ==
    LET n == ParseInteger(token.mValue) IN
    IF token.mToken \in {"Value", "String"}
      THEN With(ConvertToEscapedString(token.mValue), LAMBDA escaped :
             IF escaped.thrown # "" THEN Thrown(escaped.thrown)
             ELSE IF token.mToken = "Value"
               THEN [thrown |-> "",
                     bytes |-> LengthField(Len(token.mValue))
                                 \o escaped.value \o <<0>>]
             ELSE [thrown |-> "", bytes |-> escaped.value \o <<0>>])
    ELSE IF token.mToken = "Boolean"
      THEN [thrown |-> "", bytes |-> IF token.mValue = StrTrue THEN <<1>> ELSE <<0>>]
    ELSE IF token.mToken = "Int"
      THEN \* std::stoi
           IF (n.negative /\ MagLess(Mag_2_31, n.magnitude))
              \/ (~n.negative /\ ~MagLess(n.magnitude, Mag_2_31))
           THEN Thrown("stoi")
           ELSE [thrown |-> "", bytes |-> LittleEndian(n.negative, n.magnitude, 4)]
    ELSE IF token.mToken \in {"UInt64", "Int64"}
      THEN [thrown |-> "", bytes |-> LittleEndian(n.negative, n.magnitude, 8)]
    ELSE IF token.mToken = "Double"
      THEN [thrown |-> "", bytes |-> HexPairsReversed(DoubleHexText(token.mValue))]
    ELSE [thrown |-> "", bytes |-> <<>>]

InsertAt(bytes, position, inserted) ==
    SubSeq(bytes, 1, position) \o inserted \o SubSeq(bytes, position + 1, Len(bytes))

RECURSIVE BSONLoop(_, _, _)
BSONLoop(tokens, itr, b) ==
    IF itr > Len(tokens) THEN b
    ELSE IF b.tokenTypes = <<>> THEN [b EXCEPT !.undefined = TRUE]
    ELSE
      LET token == tokens[itr]
          top == Len(b.tokenTypes)
          currentType == b.tokenTypes[top]
          inArray == currentType.mDataType = "Array"
      IN
      IF token.mToken = "LeftCurlyBracket"
        THEN BSONLoop(tokens, itr + 1,
               [b EXCEPT !.tokenTypes =
                    Append(@, havJSONBSONDataType("Object", b.fileIndex, 0))])
      ELSE IF token.mToken = "LeftSquareBracket"
        THEN BSONLoop(tokens, itr + 1,
               [b EXCEPT !.tokenTypes =
                    Append(@, havJSONBSONDataType("Array", b.fileIndex, 4))])
      ELSE IF token.mToken = "RightSquareBracket"
        THEN IF currentType.mIndexToWriteTotalSizeTo > Len(b.stream)
             THEN [b EXCEPT !.undefined = TRUE]
             ELSE BSONLoop(tokens, itr + 1,
                    [b EXCEPT !.stream =
                                InsertAt(@, currentType.mIndexToWriteTotalSizeTo,
                                  HexPairsReversed(HexSetw(currentType.mArrayTotalSize + 1, 8)))
                                \o <<0>>,
                              !.fileIndex = @ + 5,
                              !.tokenTypes = SubSeq(@, 1, top - 1)])
      ELSE IF token.mToken = "RightCurlyBracket"
        THEN BSONLoop(tokens, itr + 1,
               [b EXCEPT !.stream = Append(@, 0),
                         !.fileIndex = @ + 1,
                         !.tokenTypes = SubSeq(@, 1, top - 1)])
      ELSE IF token.mToken \notin {"Value", "Null", "Boolean", "Int", "UInt64",
                                   "Int64", "Double", "String"}
        THEN [b EXCEPT !.thrown = "Unsupported token!"]
      ELSE IF ~inArray /\ itr = Len(tokens) THEN [b EXCEPT !.undefined = TRUE]
      ELSE
        LET nextToken == IF inArray THEN token.mToken ELSE tokens[itr + 1].mToken
            tagged == IF nextToken \in ClosingTokens THEN 0 ELSE 1
            key == IF inArray
                   THEN ZeroPadded(HexText(currentType.mCurrentArrayItemIndex), 2)
                   ELSE <<>>
            added(payload) ==
                tagged + Len(key)
                  + (IF token.mToken = "Double" THEN 8 ELSE Len(payload.bytes))
        IN
        IF ~token.mHasValue /\ token.mToken # "Null"
          THEN [b EXCEPT !.thrown = "bad_optional_access",
                         !.stream = @ \o BSONTag(nextToken) \o key]
        ELSE With(BSONPayload(token), LAMBDA payload :
          IF payload.thrown # ""
            THEN [b EXCEPT !.thrown = payload.thrown,
                           !.stream = @ \o BSONTag(nextToken) \o key]
          ELSE BSONLoop(tokens, itr + 1,
                 [b EXCEPT !.stream = @ \o BSONTag(nextToken) \o key \o payload.bytes,
                           !.fileIndex = @ + added(payload),
                           !.tokenTypes[top] =
                               IF inArray
                               THEN [@ EXCEPT !.mArrayTotalSize = @ + added(payload),
                                              !.mCurrentArrayItemIndex = (@ + 1) % 65536]
                               ELSE @]))

\* ConvertJSONToBSON with a byte written before the root's kind is looked at
ConvertJSONToBSONWritesFirst(valueNode, jsonContentsAsBinaryStream) ==
    LET lexed == TokenizationOfTree(valueNode)
        start == [thrown |-> "", undefined |-> FALSE,
                  stream |-> Append(jsonContentsAsBinaryStream, 0), fileIndex |-> 0,
                  tokenTypes |-> <<havJSONBSONDataType("Object", 0, 0)>>]
    IN
    IF lexed.thrown # "" THEN [start EXCEPT !.thrown = lexed.thrown]
    ELSE IF lexed.tokens[1].mToken # "LeftCurlyBracket"
      THEN [start EXCEPT !.thrown = "BSON document must be an object!"]
    ELSE BSONLoop(BSONTokens(lexed.tokens), 2, start)

\* returned is the bool the function returns, stream the vector afterwards
ConvertJSONToBSON(valueNode, jsonContentsAsBinaryStream) ==
    LET lexed == TokenizationOfTree(valueNode)
        start == [thrown |-> "", undefined |-> FALSE,
                  stream |-> jsonContentsAsBinaryStream, fileIndex |-> 0,
                  tokenTypes |-> <<havJSONBSONDataType("Object", 0, 0)>>]
    IN
    IF lexed.thrown # "" THEN [start EXCEPT !.thrown = lexed.thrown]
    ELSE IF lexed.tokens[1].mToken # "LeftCurlyBracket"
      THEN [start EXCEPT !.thrown = "BSON document must be an object!"]
    ELSE BSONLoop(BSONTokens(lexed.tokens), 2, start)


(***************************************************************************)
(* ConvertBSONToJSON: the JSON text of a BIN document.  jsonStringStream   *)
(* is read with operator[], which is defined up to and including the      *)
(* terminator at size(); a read past that has undefined behaviour.         *)
(***************************************************************************)
Readable(s, index) == index >= 0 /\ index <= Len(s)
ByteOf(s, index) == IF index < Len(s) THEN At(s, index) ELSE 0

\* the key scan of GetBSONKey: index of the terminator after index
RECURSIVE KeyEnd(_, _)
KeyEnd(s, index) == IF ByteOf(s, index) = 0 THEN index ELSE KeyEnd(s, index + 1)

GetBSONKey(jsonStringStream, index) ==
    IF ~Readable(jsonStringStream, index + 1)
    THEN [thrown |-> "", undefined |-> TRUE, index |-> index, keyValue |-> <<>>]
    ELSE LET end == KeyEnd(jsonStringStream, index + 1) IN
         With(ConvertToEscapedString(SubSeq(jsonStringStream, index + 2, end)),
              LAMBDA escaped :
                [thrown |-> escaped.thrown, undefined |-> FALSE, index |-> end + 1,
                 keyValue |-> IF escaped.thrown # "" THEN <<>>
                              ELSE <<CH_QUOTE>> \o escaped.value
                                     \o <<CH_QUOTE, CH_COLON, CH_SPACE>>])

\* The four bytes are combined with shifts of (signed) char values; the
\* result is the two's complement int32 of the little-endian bytes.
GetBSONValueSize(jsonStringStream, index) ==
    IF ~Readable(jsonStringStream, index + 3)
      THEN [thrown |-> "", undefined |-> TRUE, index |-> index, valueSize |-> 0]
    ELSE IF ByteOf(jsonStringStream, index + 3) >= 128
      THEN [thrown |-> "Value size can't be negative!", undefined |-> FALSE,
            index |-> index, valueSize |-> 0]
    ELSE [thrown |-> "", undefined |-> FALSE, index |-> index + 4,
          valueSize |-> ByteOf(jsonStringStream, index)
                          + 256 * ByteOf(jsonStringStream, index + 1)
                          + 65536 * ByteOf(jsonStringStream, index + 2)
                          + 16777216 * ByteOf(jsonStringStream, index + 3)]

BSONTypes == {1, 2, 4, 5, 8, 9, 10, 13, 16, 17, 18}

Bytes(s, index, count) == [i \in 1..count |-> ByteOf(s, index + i - 1)]

\* the string scan of lines 2345-2351: index where the scan stops
RECURSIVE StringEnd(_, _, _, _)
StringEnd(s, index, read, valueSize) ==
    IF ~Readable(s, index) THEN index
    ELSE IF ByteOf(s, index) = 0 \/ read >= valueSize THEN index
    ELSE StringEnd(s, index + 1, read + 1, valueSize)

\* lines 2490-2498: the bytes of binary data, each through CodePointToString
\* (a char above 0x7f converts to a code point above 0x10ffff)
RECURSIVE BinaryText(_, _, _)
BinaryText(s, index, end) ==
    IF index >= end THEN <<>>
    ELSE (IF ByteOf(s, index) < 128 THEN CodePointToString(ByteOf(s, index)) ELSE <<>>)
         \o (IF index + 1 < end THEN <<CH_COMMA, CH_SPACE>> ELSE <<>>)
         \o BinaryText(s, index + 1, end)

ValueResult(text, index, counted) ==
    [thrown |-> "", undefined |-> FALSE, text |-> text, index |-> index,
     counted |-> counted, opens |-> FALSE, valueSize |-> 0]
ValueThrown(msg) ==
    [thrown |-> msg, undefined |-> FALSE, text |-> <<>>, index |-> 0,
     counted |-> 0, opens |-> FALSE, valueSize |-> 0]
ValueUndefined ==
    [thrown |-> "", undefined |-> TRUE, text |-> <<>>, index |-> 0,
     counted |-> 0, opens |-> FALSE, valueSize |-> 0]

\* the value part of each case of the switch of lines 1919-2538; index is the
\* first byte after the key, the result's index where the case leaves it
BSONValue(s, type, index) ==
    LET size == GetBSONValueSize(s, index) IN
    IF type = 10 THEN ValueResult(StrNull, index, 0)
    ELSE IF type = 8
      THEN IF ~Readable(s, index) THEN ValueUndefined
           ELSE ValueResult(IF ByteOf(s, index) # 0 THEN StrTrue ELSE StrFalse,
                            index, 1)
    ELSE IF type = 16
      THEN IF ~Readable(s, index + 3) THEN ValueUndefined
           ELSE ValueResult(IntegerText(Bytes(s, index, 4), TRUE), index + 3, 4)
    ELSE IF type \in {17, 9, 18}
      THEN IF ~Readable(s, index + 7) THEN ValueUndefined
           ELSE ValueResult(IntegerText(Bytes(s, index, 8), type # 17), index + 7, 8)
    ELSE IF type = 1
      THEN IF ~Readable(s, index + 7) THEN ValueUndefined
           ELSE IF ~DoubleText(Bytes(s, index, 8)).whole THEN ValueThrown("unmodelled")
           ELSE ValueResult(DoubleText(Bytes(s, index, 8)).text, index + 7, 8)
    ELSE IF size.undefined THEN ValueUndefined
    ELSE IF size.thrown # "" THEN ValueThrown(size.thrown)
    ELSE IF type \in {13, 2}
      THEN LET end == StringEnd(s, size.index, 0, size.valueSize) IN
           IF ~Readable(s, end) THEN ValueUndefined
           ELSE With(ConvertToEscapedString(SubSeq(s, size.index + 1, end)),
                     LAMBDA escaped :
                       IF escaped.thrown # "" THEN ValueThrown(escaped.thrown)
                       ELSE ValueResult(<<CH_QUOTE>> \o escaped.value \o <<CH_QUOTE>>,
                                        end, 4 + Len(escaped.value) + 1))
    ELSE IF type = 4
      THEN [ValueResult(<<CH_LSQUARE>>, size.index - 1, 0)
              EXCEPT !.opens = TRUE, !.valueSize = size.valueSize]
    ELSE \* binary data
         LET subtype == ByteOf(s, size.index)
             end == size.index + 1 + size.valueSize
         IN  IF ~Readable(s, size.index) THEN ValueUndefined
             ELSE IF subtype \notin {0, 2}
               THEN ValueThrown(IF subtype >= 128
                                THEN "User defined subtypes are unsupported!"
                                ELSE "Unsupported subtype!")
             ELSE IF size.valueSize > 0 /\ ~Readable(s, end - 1) THEN ValueUndefined
             ELSE ValueResult(<<CH_LSQUARE>> \o BinaryText(s, size.index + 1, end)
                                \o <<CH_RSQUARE>>,
                              size.index + 1, 4 + size.valueSize)


havJSONBSONTypeValue(currentIndex, totalLength) ==
    [mType |-> "Array", mCurrentIndex |-> currentIndex, mTotalLength |-> totalLength]

Separator == <<CH_COMMA, CH_SPACE>>

\* lines 2540-2583: an array whose bytes are used up is closed
CloseArray(d) ==
    LET top == Len(d.typeMemory) IN
    IF top = 0 THEN [d EXCEPT !.jsonContent = @ \o Separator]
    ELSE IF d.typeMemory[top].mCurrentIndex + 1 # d.typeMemory[top].mTotalLength THEN d
    ELSE LET popped == SubSeq(d.typeMemory, 1, top - 1)
             under == Len(popped)
         IN  IF under = 0
             THEN [d EXCEPT !.jsonContent = @ \o <<CH_RSQUARE>>,
                            !.index = @ + 2, !.typeMemory = popped]
             ELSE [d EXCEPT !.jsonContent =
                                @ \o <<CH_RSQUARE>>
                                  \o (IF popped[under].mCurrentIndex + 2
                                           < popped[under].mTotalLength
                                      THEN Separator ELSE <<>>),
                            !.index = @ + 2,
                            !.typeMemory = [popped EXCEPT ![under].mCurrentIndex = @ + 1]]

\* one element: the switch of lines 1919-2538
DecodeElement(s, d) ==
    LET type == ByteOf(s, d.index)
        top == Len(d.typeMemory)
        inArray == top > 0
        counted(value) == IF inArray
                          THEN d.typeMemory[top].mCurrentIndex + 3 + value.counted
                          ELSE 0
        keyed(key) == IF inArray THEN d.jsonContent ELSE d.jsonContent \o key.keyValue
    IN
    IF type \notin BSONTypes THEN [d EXCEPT !.thrown = "Unsupported type!"]
    ELSE With(GetBSONKey(s, d.index), LAMBDA key :
      IF ~inArray /\ key.undefined THEN [d EXCEPT !.undefined = TRUE]
      ELSE IF ~inArray /\ key.thrown # "" THEN [d EXCEPT !.thrown = key.thrown]
      ELSE With(BSONValue(s, type, IF inArray THEN d.index + 3 ELSE key.index),
                LAMBDA value :
        IF value.undefined THEN [d EXCEPT !.undefined = TRUE]
        ELSE IF value.thrown # "" THEN [d EXCEPT !.thrown = value.thrown]
        ELSE IF value.opens
        THEN [d EXCEPT !.index = value.index,
                       !.jsonContent = keyed(key) \o value.text,
                       !.typeMemory =
                           Append(IF inArray THEN [@ EXCEPT ![top].mCurrentIndex = @ + 3]
                                  ELSE @,
                                  havJSONBSONTypeValue(4, value.valueSize))]
        ELSE [d EXCEPT !.index = value.index,
                       !.jsonContent =
                           keyed(key) \o value.text
                             \o (IF inArray /\ counted(value) + 1
                                                  < d.typeMemory[top].mTotalLength
                                 THEN Separator ELSE <<>>),
                       !.typeMemory =
                           IF inArray THEN [@ EXCEPT ![top].mCurrentIndex = counted(value)]
                           ELSE @]))

RECURSIVE DecodeLoop(_, _, _)
DecodeLoop(s, totalDocumentSize, d) ==
    IF d.index >= totalDocumentSize THEN d
    ELSE IF d.index + 1 = totalDocumentSize THEN [d EXCEPT !.index = @ + 1]
    ELSE IF /\ d.typeMemory # <<>>
            /\ d.typeMemory[Len(d.typeMemory)].mCurrentIndex
                 > d.typeMemory[Len(d.typeMemory)].mTotalLength
      THEN [d EXCEPT !.thrown = "BSON type value index is greater than total length!"]
    ELSE IF ~Readable(s, d.index) THEN [d EXCEPT !.undefined = TRUE]
    ELSE With(DecodeElement(s, d), LAMBDA e :
           IF e.thrown # "" \/ e.undefined THEN e
           ELSE DecodeLoop(s, totalDocumentSize,
                           [CloseArray(e) EXCEPT !.index = @ + 1]))

\* thrown, undefined, and the JSON text returned
ConvertBSONToJSON(jsonStringStream) ==
    LET size == GetBSONValueSize(jsonStringStream, 0)
        trimmed(text) ==
            IF Len(text) >= 2 /\ SubSeq(text, Len(text) - 1, Len(text)) = Separator
            THEN SubSeq(text, 1, Len(text) - 2) ELSE text
    IN
    IF size.undefined THEN [thrown |-> "", undefined |-> TRUE, jsonContent |-> <<>>]
    ELSE IF size.thrown # ""
      THEN [thrown |-> size.thrown, undefined |-> FALSE, jsonContent |-> <<>>]
    ELSE With(DecodeLoop(jsonStringStream, size.valueSize,
                [index |-> size.index, typeMemory |-> <<>>,
                 jsonContent |-> <<CH_LCURLY>>, thrown |-> "", undefined |-> FALSE]),
              LAMBDA d :
      IF d.thrown # "" \/ d.undefined
        THEN [thrown |-> d.thrown, undefined |-> d.undefined, jsonContent |-> <<>>]
      ELSE IF ~Readable(jsonStringStream, d.index)
        THEN [thrown |-> "", undefined |-> TRUE, jsonContent |-> <<>>]
      ELSE IF ByteOf(jsonStringStream, d.index) # 0
        THEN [thrown |-> "EOO not found!", undefined |-> FALSE, jsonContent |-> <<>>]
      ELSE [thrown |-> "", undefined |-> FALSE,
            jsonContent |-> Append(trimmed(d.jsonContent), CH_RCURLY)])

\* WriteBSONFile, lines 4643-4650: the int32 size, then the bytes
BSONFile(stream) == LittleEndian(FALSE, DecimalDigits(Len(stream) + 4), 4) \o stream


(***************************************************************************)
(* The state machine.  A caller owns a havJSONStream (its token queue is   *)
(* mTokens) and the objects it passes by reference: the tree valueNode,    *)
(* the text jsonContentsAsString and the bytes jsonContentsAsBinaryStream. *)
(* called names the last operation, returned what it gave back ("true",    *)
(* "false", "thrown" with the message in thrown, or "crashed" when a run   *)
(* with undefined behaviour ends the process).  fileContents is the text   *)
(* last handed to the parser, source the tree last handed to a writer and  *)
(* formatted the flag of that call.  before is valueNode and streamBefore  *)
(* jsonContentsAsBinaryStream as they were when the last operation began,  *)
(* undefined whether that operation ran into                               *)
(* undefined behaviour, history the operations run so far, in order.       *)
(* tokensBefore is mTokens as it was when the last call of a parser began. *)
(* run is the position of a call of ParseContent that is followed one      *)
(* loop iteration at a time: its phase, the locals of the lexer and of the *)
(* builder, and index and mTokens as they were when the last iteration     *)
(* began.                                                                  *)
(* nodes holds the havJSONData objects the caller made with                *)
(* std::make_shared, in the order they were made: the std::shared_ptr of a *)
(* node is its position, and the items of a container hold the positions   *)
(* of its children.  After a call of an accessor, source is the node it   *)
(* was called on, formatted its explicitCast, and returned is "value",     *)
(* "default" or "thrown".  After a call of remove, source is the node as   *)
(* it was before the call and fileContents the key.                        *)
(***************************************************************************)
VARIABLES valueNode, fileContents, mTokens, called, returned, thrown,
          jsonContentsAsString, jsonContentsAsBinaryStream, source, formatted,
          before, streamBefore, undefined, history, nodes, tokensBefore, run

vars == <<valueNode, fileContents, mTokens, called, returned, thrown,
          jsonContentsAsString, jsonContentsAsBinaryStream, source, formatted,
          before, streamBefore, undefined, history, nodes, tokensBefore, run>>

\* no call of ParseContent is being followed
Idle == [phase |-> "idle", lexer |-> LexerStart(<<>>), builder |-> BuilderStart(<<>>),
         indexBefore |-> 0, queueBefore |-> <<>>]

\* bounds of the input sets
MaxChunks == 4
MaxParses == 1
MaxSteps == 3
MaxDepth == 2
MaxWidth == 2

StrA == <<CH_QUOTE, CH_a, CH_QUOTE>>
StrOld == <<111, 108, 100>>
OldValue == havJSONData("String", StrOld)

\* the pieces the input texts are made of
Chunks == {<<CH_LSQUARE>>, <<CH_RSQUARE>>, <<CH_LCURLY>>, <<CH_RCURLY>>,
           <<CH_COMMA>>, <<CH_COLON>>, StrA, StrTrue, <<CH_0 + 1>>, <<CH_SPACE>>}

RECURSIVE Texts(_)
Texts(n) ==
    IF n = 0 THEN {<<>>}
    ELSE LET shorter == Texts(n - 1) IN
         shorter \cup {t \o c : t \in shorter, c \in Chunks}

Join(a, b, c) == a \o b \o c

\* longer texts: the examples of the documentation and of the tests
ExtraTexts ==
    {Join(<<CH_LSQUARE>>, StrTrue \o <<CH_SPACE>> \o StrFalse, <<CH_RSQUARE>>),
     Join(<<CH_LCURLY>>, StrA \o <<CH_SPACE>> \o StrTrue, <<CH_RCURLY>>),
     Join(<<CH_LCURLY>>, StrA \o <<CH_COLON, CH_0 + 1, CH_COMMA>>, <<>>),
     Join(<<CH_LCURLY>>, StrA \o <<CH_COLON, CH_0 + 1>>, <<CH_RCURLY>>),
     Join(<<CH_LSQUARE, CH_LSQUARE, CH_0 + 1, CH_SPACE, CH_RSQUARE>>,
          <<CH_COMMA, CH_0 + 2>>, <<CH_RSQUARE>>)}

TextInputs == Texts(MaxChunks) \cup ExtraTexts

Fresh(tree, stream) ==
    /\ valueNode = tree
    /\ fileContents = <<>>
    /\ mTokens = <<>>
    /\ called = ""
    /\ returned = ""
    /\ thrown = ""
    /\ jsonContentsAsString = <<>>
    /\ jsonContentsAsBinaryStream = stream
    /\ streamBefore = stream
    /\ source = NullValue
    /\ formatted = FALSE
    /\ before = tree
    /\ undefined = FALSE
    /\ history = <<>>
    /\ nodes = <<>>
    /\ tokensBefore = <<>>
    /\ run = Idle

\* What a run of a parser with undefined behaviour can end as: the process
\* dies, or the call comes back as one of its defined ends, with the tree
\* built so far when it returns true.
UndefinedEnds == {"crashed", "true", "false", "thrown"}

\* What the caller has when a call of a parser is over: r is the call's
\* result, r.rootNode the tree built when undefined behaviour set in.
CallOver(r) ==
    /\ undefined' = (r.kind = "undefined")
    /\ mTokens' = r.mTokens
    /\ IF r.kind = "undefined"
       THEN \E end \in UndefinedEnds :
              /\ returned' = end
              /\ thrown' = IF end = "thrown" THEN "undefined behaviour" ELSE ""
              /\ valueNode' = IF end = "true" THEN r.rootNode
                              ELSE IF end = "false" THEN NullValue
                              ELSE valueNode
       ELSE /\ returned' = r.kind
            /\ thrown' = r.thrown
            /\ valueNode' = r.valueNode

\* A call of a parser from its beginning to its end
Ends(r) ==
    /\ before' = valueNode
    /\ tokensBefore' = mTokens
    /\ run' = run
    /\ CallOver(r)

\* havJSONStream::ParseContent(text, valueNode)
ParseContentCall(text) ==
    /\ returned # "crashed"
    /\ history' = Append(history, "ParseContent")
    /\ called' = "ParseContent"
    /\ fileContents' = text
    /\ \E r \in {ParseContent(mTokens, text, valueNode)} : Ends(r)
    /\ UNCHANGED <<jsonContentsAsString, jsonContentsAsBinaryStream, streamBefore,
                   source, formatted, nodes>>

InitParse == \E tree \in {NullValue, OldValue} : Fresh(tree, <<>>)
NextParse == Len(history) < MaxParses /\ \E text \in TextInputs : ParseContentCall(text)
SpecParse == InitParse /\ [][NextParse]_vars

(***************************************************************************)
(* Trees.  Values(d) holds the scalars and the containers of nesting depth *)
(* at most d, with at most MaxWidth items each; the keys of an object are  *)
(* in ascending order, as std::map keeps them.                             *)
(***************************************************************************)
Scalars ==
    {NullValue, havJSONData("Boolean", StrTrue), havJSONData("UInt", <<CH_0 + 1>>),
     havJSONData("String", <<CH_a>>)}

Keys == {<<CH_a>>, <<CH_b>>}

SeqsOf(S) == UNION {[1..n -> S] : n \in 0..MaxWidth}

Ascending(ks) == \A i \in 1..(Len(ks) - 1) : KeyLess(ks[i], ks[i + 1])

ArraysOf(S) ==
    {Container("Array", [i \in 1..Len(vs) |-> [key |-> <<>>, value |-> vs[i]]]) :
        vs \in SeqsOf(S)}

ObjectsOf(S) ==
    {Container("Object", [i \in 1..Len(p[1]) |-> [key |-> p[1][i], value |-> p[2][i]]]) :
        p \in {q \in SeqsOf(Keys) \X SeqsOf(S) : Len(q[1]) = Len(q[2]) /\ Ascending(q[1])}}

RECURSIVE Values(_)
Values(d) ==
    IF d = 0 THEN Scalars
    ELSE LET inner == Values(d - 1) IN inner \cup ArraysOf(inner) \cup ObjectsOf(inner)

Containers == {v \in Values(MaxDepth) : v.type \in {"Array", "Object"}}

\* havJSONStream::ConvertJSONToString(valueNode, out, formatted), called with
\* an empty out
ConvertJSONToStringCall(f) ==
    \E r \in {ConvertJSONToString(valueNode, f)} :
    /\ returned # "crashed"
    /\ history' = Append(history, IF f THEN "pretty" ELSE "compact")
    /\ called' = "ConvertJSONToString"
    /\ formatted' = f
    /\ source' = valueNode
    /\ before' = valueNode
    /\ undefined' = FALSE
    /\ returned' = IF r.thrown # "" THEN "thrown" ELSE IF r.returned THEN "true" ELSE "false"
    /\ thrown' = r.thrown
    /\ jsonContentsAsString' = r.text
    /\ UNCHANGED <<valueNode, fileContents, mTokens, jsonContentsAsBinaryStream,
                   streamBefore, nodes, tokensBefore, run>>

\* the text just written is handed to ParseContent
ParseWritten ==
    /\ Len(history) < MaxSteps
    /\ called = "ConvertJSONToString"
    /\ returned = "true"
    /\ ParseContentCall(jsonContentsAsString)

\* a tree that was parsed is written again
WriteParsed(f) ==
    /\ Len(history) < MaxSteps
    /\ called \in {"", "ParseContent"}
    /\ called = "ParseContent" => returned = "true"
    /\ ConvertJSONToStringCall(f)

InitText == \E tree \in Containers : Fresh(tree, <<>>)
NextText ==
    \/ \E f \in BOOLEAN : WriteParsed(f)
    \/ ParseWritten
SpecText == InitText /\ [][NextText]_vars


(***************************************************************************)
(* Properties of ParseContent, checked under SpecParse.                    *)
(***************************************************************************)
RECURSIVE Count(_, _)
Count(s, set) ==
    IF s = <<>> THEN 0
    ELSE (IF Head(s) \in set THEN 1 ELSE 0) + Count(Tail(s), set)

\* The brackets of the text do not pair up at its end (no text of the input
\* sets holds a bracket inside a string).
Unbalanced(text) ==
    Count(text, {CH_LSQUARE, CH_LCURLY}) # Count(text, {CH_RSQUARE, CH_RCURLY})

ValueTokens == LiteralTokens \cup {"String"}

\* Two values follow each other with neither `,` nor `:` between them: two
\* elements or members without a separator, or a key without its `:`.
AdjacentValues(tokens) ==
    \E i \in 1..(Len(tokens) - 1) :
        /\ tokens[i].mToken \in ValueTokens \cup ClosingTokens
        /\ tokens[i + 1].mToken \in ValueTokens \cup OpeningTokens

FirstToken(text) ==
    LET tokens == Tokenization(tokensBefore, text).mTokens IN
    IF tokens = <<>> THEN "None" ELSE tokens[1].mToken

Parsed == called = "ParseContent"

\* C6: a text whose brackets are not balanced at its end is never parsed
\* into a tree: ParseContent does not return true for it.
C6_UnbalancedRejected ==
    (Parsed /\ Unbalanced(fileContents)) => returned # "true"

\* `[true` is parsed into the array [true] by a run without undefined
\* behaviour.
C6_TruncatedAccepted ==
    /\ Parsed
    /\ fileContents = <<CH_LSQUARE>> \o StrTrue
    /\ ~undefined
    /\ returned = "true"
    /\ valueNode = Container("Array", <<[key |-> <<>>, value |-> havJSONData("Boolean", StrTrue)]>>)

\* C7: a token sequence with a key that lacks its `:` or with two members or
\* elements that lack the `,` between them never yields a tree.
C7_GrammarEnforced ==
    (Parsed /\ AdjacentValues(Tokenization(tokensBefore, fileContents).mTokens))
        => returned # "true"

\* `[true false]` is parsed into the array [true, false] by a run without
\* undefined behaviour.
C7_MissingCommaAccepted ==
    /\ Parsed
    /\ fileContents = Join(<<CH_LSQUARE>>, StrTrue \o <<CH_SPACE>> \o StrFalse, <<CH_RSQUARE>>)
    /\ ~undefined
    /\ returned = "true"
    /\ Len(valueNode.items) = 2

\* C8: the root is an Object when the first token is `{` and an Array when
\* it is `[`; with no token or any other first token ParseContent returns
\* false and the output is Null.
C8_RootIsContainer ==
    Parsed =>
      LET first == FirstToken(fileContents) IN
      /\ (returned = "true" /\ first = "LeftCurlyBracket") => valueNode.type = "Object"
      /\ (returned = "true" /\ first = "LeftSquareBracket") => valueNode.type = "Array"
      /\ first \notin OpeningTokens => (returned = "false" /\ valueNode = NullValue)

\* C8, with the lexer's errors: the root is an Object when the first token
\* is `{` and an Array when it is `[`; with no token or any other first
\* token ParseContent returns false and the output is Null, unless the
\* lexer raises an error on a later part of the text, and then ParseContent
\* raises that error and the output is as it was before the call.
C8_RootIsContainerOrLexerError ==
    Parsed =>
      LET lexed == Tokenization(tokensBefore, fileContents)
          first == FirstToken(fileContents)
      IN
      /\ (returned = "true" /\ first = "LeftCurlyBracket") => valueNode.type = "Object"
      /\ (returned = "true" /\ first = "LeftSquareBracket") => valueNode.type = "Array"
      /\ first \notin OpeningTokens =>
            IF lexed.thrown = ""
            THEN returned = "false" /\ valueNode = NullValue
            ELSE returned = "thrown" /\ thrown = lexed.thrown /\ valueNode = before

\* the text `true` handed to ParseContent with a String as the output
C8_LiteralRootRejected ==
    /\ Parsed
    /\ fileContents = StrTrue
    /\ before = OldValue
    /\ returned = "false"
    /\ valueNode = NullValue

\* C10: ParseContent ends in one of three ways: true with the tree built
\* from the whole token stream, false with a Null output, or an error with
\* the output as it was before the call.
C10_ThreeOutcomes ==
    Parsed =>
      \/ /\ returned = "true"
         /\ valueNode = ParseJSONContents(Tokenization(tokensBefore, fileContents).mTokens).root
      \/ returned = "false" /\ valueNode = NullValue
      \/ returned = "thrown" /\ valueNode = before

\* `[true]true` makes the builder read the top of its empty container stack,
\* and the run ends the process
C10_ProcessEnded ==
    /\ Parsed
    /\ fileContents = Join(<<CH_LSQUARE>>, StrTrue, <<CH_RSQUARE>>) \o StrTrue
    /\ undefined
    /\ returned = "crashed"

\* the runs without undefined behaviour end in one of the three ways
DefinedOutcomes == (Parsed /\ ~undefined) => C10_ThreeOutcomes

\* the lexer never reads typeTokens past its end
LexerInRange == Parsed => ~Tokenization(tokensBefore, fileContents).outOfRange


(***************************************************************************)
(* Properties of the text round trip, checked under SpecText.              *)
(***************************************************************************)
Item(v) == [key |-> <<>>, value |-> v]
One == havJSONData("UInt", <<CH_0 + 1>>)

\* the tree [[1],1] and what its compact text [[1],1] is parsed into, [[1,1]]
NestedThenNumber == Container("Array", <<Item(Container("Array", <<Item(One)>>)), Item(One)>>)
NumberMovedInside == Container("Array", <<Item(Container("Array", <<Item(One), Item(One)>>))>>)

\* C1: parsing the compact text of a tree succeeds and gives the tree back.
C1_TextRoundTrip ==
    history = <<"compact", "ParseContent">>
        => (returned = "true" /\ valueNode = source)

\* the compact text of [[1],1] is parsed, without undefined behaviour, into
\* [[1,1]]
C1_NumberSwallowsBracket ==
    /\ history = <<"compact", "ParseContent">>
    /\ source = NestedThenNumber
    /\ ~undefined
    /\ returned = "true"
    /\ valueNode = NumberMovedInside

\* C2: the pretty text and the compact text of a tree are parsed into equal
\* trees.
C2_PrettySameAsCompact ==
    history = <<"pretty", "ParseContent">> =>
      LET compact == ParseContent(mTokens, ConvertJSONToString(source, FALSE).text, before) IN
      /\ returned = "true"
      /\ compact.kind = "true"
      /\ compact.valueNode = valueNode

\* the pretty text of [[1],1] is parsed into [[1],1], its compact text into
\* [[1,1]], both without undefined behaviour
C2_PrettyDiffersFromCompact ==
    /\ history = <<"pretty", "ParseContent">>
    /\ source = NestedThenNumber
    /\ ~undefined
    /\ returned = "true"
    /\ valueNode = NestedThenNumber
    /\ ParseContent(mTokens, ConvertJSONToString(source, FALSE).text, before).kind = "true"
    /\ ParseContent(mTokens, ConvertJSONToString(source, FALSE).text, before).valueNode = NumberMovedInside

\* C3: the compact text of the tree parsed from a compact text is that text,
\* byte for byte.
C3_CompactIdempotent ==
    history = <<"compact", "ParseContent", "compact">>
        => (returned = "true" /\ jsonContentsAsString = fileContents)

\* the compact text [[1],1] comes back as [[1,1]]
C3_TextChanged ==
    /\ history = <<"compact", "ParseContent", "compact">>
    /\ fileContents = <<CH_LSQUARE, CH_LSQUARE, CH_0 + 1, CH_RSQUARE, CH_COMMA, CH_0 + 1, CH_RSQUARE>>
    /\ ~undefined
    /\ returned = "true"
    /\ jsonContentsAsString = <<CH_LSQUARE, CH_LSQUARE, CH_0 + 1, CH_COMMA, CH_0 + 1, CH_RSQUARE, CH_RSQUARE>>


(***************************************************************************)
(* Strings of one code point.  UTF8(c) is the UTF-8 encoding of c; the     *)
(* trees of SpecEscape hold one such String in an Array or in an Object.   *)
(***************************************************************************)
MaxDenseCodePoint == 767

UTF8(c) ==
    IF c < 128 THEN <<c>>
    ELSE IF c < 2048 THEN <<192 + (c \div 64), 128 + (c % 64)>>
    ELSE IF c < 65536
      THEN <<224 + (c \div 4096), 128 + ((c \div 64) % 64), 128 + (c % 64)>>
    ELSE <<240 + (c \div 262144), 128 + ((c \div 4096) % 64),
           128 + ((c \div 64) % 64), 128 + (c % 64)>>

\* every code point up to MaxDenseCodePoint, and the ends of the ranges of
\* the two-, three- and four-byte encodings and of the surrogates
CodePoints ==
    (0..MaxDenseCodePoint) \cup {2047, 2048, 8232, 55295, 57344, 65533, 65535,
                                 65536, 128512, 1114111}

Holders(string) ==
    {Container("Array", <<[key |-> <<>>, value |-> string]>>),
     Container("Object", <<[key |-> <<CH_a>>, value |-> string]>>)}

InitEscape ==
    \E c \in CodePoints : \E tree \in Holders(havJSONData("String", UTF8(c))) :
        Fresh(tree, <<>>)
SpecEscape == InitEscape /\ [][NextText]_vars

\* C5: a tree holding one String of one code point, written as text and
\* parsed back, holds a String of the same bytes.
C5_EscapeRoundTrip ==
    (Len(history) = 2 /\ called = "ParseContent")
        => (returned = "true" /\ valueNode = source)

\* the String of U+0000 comes back as the empty String
C5_NulLost ==
    /\ history = <<"compact", "ParseContent">>
    /\ source = Container("Array", <<[key |-> <<>>, value |-> havJSONData("String", <<0>>)]>>)
    /\ jsonContentsAsString = <<CH_LSQUARE, CH_QUOTE, CH_BACKSLASH, CH_u, CH_0, CH_0, CH_0, CH_0,
                                CH_QUOTE, CH_RSQUARE>>
    /\ ~undefined
    /\ returned = "true"
    /\ valueNode = Container("Array", <<[key |-> <<>>, value |-> havJSONData("String", <<>>)]>>)

\* the code points other than U+0000 come back as they were
OtherCodePointsRoundTrip ==
    (Len(history) = 2 /\ called = "ParseContent"
       /\ source.items[1].value.val # <<0>>)
        => (returned = "true" /\ valueNode = source)


(***************************************************************************)
(* BIN.  WriteBSONFile runs ConvertJSONToBSON and, when that returns true, *)
(* writes BSONFile(jsonContentsAsBinaryStream); ParseFile with the BSON    *)
(* type reads the bytes of a file, decodes them into text and hands the    *)
(* text to the lexer and the builder.                                      *)
(***************************************************************************)
\* ParseFile(fileName, valueNode, havJSONType::BSON) on a file of these bytes
ParseFile(fileBytes, node, tokens) ==
    LET stays == [kind |-> "false", thrown |-> "", valueNode |-> NullValue,
                  mTokens |-> tokens, rootNode |-> NullValue]
    IN
    IF fileBytes = <<>> THEN stays
    ELSE With(ConvertBSONToJSON(fileBytes), LAMBDA decoded :
      IF decoded.undefined
        THEN [stays EXCEPT !.kind = "undefined", !.valueNode = node]
      ELSE IF decoded.thrown # ""
        THEN [stays EXCEPT !.kind = "thrown", !.thrown = decoded.thrown,
                           !.valueNode = node]
      ELSE IF decoded.jsonContent = <<>> THEN stays
      ELSE ParseContent(tokens, decoded.jsonContent, node))

\* havJSONStream::ConvertJSONToBSON(valueNode, jsonContentsAsBinaryStream);
\* a run with undefined behaviour dies, throws or returns
ConvertJSONToBSONCall ==
    \E r \in {ConvertJSONToBSON(valueNode, jsonContentsAsBinaryStream)} :
    /\ returned # "crashed"
    /\ history' = Append(history, "ConvertJSONToBSON")
    /\ called' = "ConvertJSONToBSON"
    /\ source' = valueNode
    /\ before' = valueNode
    /\ streamBefore' = jsonContentsAsBinaryStream
    /\ undefined' = r.undefined
    /\ jsonContentsAsBinaryStream' = r.stream
    /\ IF r.undefined
       THEN \E end \in UndefinedEnds \ {"false"} :
              /\ returned' = end
              /\ thrown' = IF end = "thrown" THEN "undefined behaviour" ELSE ""
       ELSE /\ returned' = IF r.thrown # "" THEN "thrown" ELSE "true"
            /\ thrown' = r.thrown
    /\ UNCHANGED <<valueNode, fileContents, mTokens, jsonContentsAsString, formatted,
                   nodes, tokensBefore, run>>

\* havJSONStream::ParseFile(fileName, valueNode, havJSONType::BSON) on a file
\* that holds fileBytes
ParseFileOn(fileBytes) ==
    /\ returned # "crashed"
    /\ history' = Append(history, "ParseFile")
    /\ called' = "ParseFile"
    /\ fileContents' = fileBytes
    /\ \E r \in {ParseFile(fileBytes, valueNode, mTokens)} : Ends(r)
    /\ UNCHANGED <<jsonContentsAsString, jsonContentsAsBinaryStream, streamBefore,
                   source, formatted, nodes>>

\* ParseFile of the file WriteBSONFile wrote
ParseFileCall ==
    /\ called = "ConvertJSONToBSON"
    /\ returned = "true"
    /\ ParseFileOn(BSONFile(jsonContentsAsBinaryStream))

\* a vector that already holds a byte
StaleStream == <<CH_v>>

InitBSON ==
    \E tree \in Values(MaxDepth) : \E stream \in {<<>>, StaleStream} : Fresh(tree, stream)
NextBSON ==
    \/ history = <<>> /\ ConvertJSONToBSONCall
    \/ ParseFileCall
SpecBSON == InitBSON /\ [][NextBSON]_vars

\* the double-precision payloads the decoder meets are whole numbers
DoublesModelled ==
    called = "ParseFile" => thrown # "unmodelled"


(***************************************************************************)
(* Properties of BIN, checked under SpecBSON.                              *)
(***************************************************************************)
\* the narrowing rewrites of the encoder: UInt to Int, Long to Int64, ULong
\* to UInt64, in every node of the tree
RECURSIVE Narrowed(_)
Narrowed(v) ==
    [type |-> CASE v.type = "UInt" -> "Int"
                [] v.type = "Long" -> "Int64"
                [] v.type = "ULong" -> "UInt64"
                [] OTHER -> v.type,
     val |-> v.val,
     items |-> [i \in 1..Len(v.items) |->
                  [key |-> v.items[i].key, value |-> Narrowed(v.items[i].value)]]]

Member(key, v) == [key |-> key, value |-> v]
True == havJSONData("Boolean", StrTrue)

\* C4: an Object written by ConvertJSONToBSON into an empty vector and read
\* back by ParseFile comes back as the same tree, up to the narrowing
\* rewrites.
C4_BinRoundTrip ==
    /\ (called = "ConvertJSONToBSON" /\ source.type = "Object" /\ streamBefore = <<>>)
          => returned = "true"
    /\ (called = "ParseFile" /\ source.type = "Object" /\ streamBefore = <<>>)
          => (returned = "true" /\ Narrowed(valueNode) = Narrowed(source))

\* the Object {"a":[true],"b":true} is written without undefined behaviour
\* and the decoder raises an error on the bytes
C4_MemberAfterArrayLost ==
    /\ history = <<"ConvertJSONToBSON", "ParseFile">>
    /\ streamBefore = <<>>
    /\ source = Container("Object",
                   <<Member(<<CH_a>>, Container("Array", <<Item(True)>>)),
                     Member(<<CH_b>>, True)>>)
    /\ ~undefined
    /\ returned = "thrown"
    /\ thrown = "Unsupported type!"

RootKindError == "BSON document must be an object!"

\* C9: for a root that is not an Object ConvertJSONToBSON raises an error
\* and leaves the vector as it was; for an Object root it does not raise
\* the error of the root's kind.
C9_RootMustBeObject ==
    called = "ConvertJSONToBSON" =>
      /\ source.type # "Object" =>
           (returned = "thrown" /\ jsonContentsAsBinaryStream = streamBefore)
      /\ source.type = "Object" => thrown # RootKindError

\* an Array handed to ConvertJSONToBSON with a vector that holds a byte
C9_ArrayRootRejected ==
    /\ called = "ConvertJSONToBSON"
    /\ source = Container("Array", <<Item(True)>>)
    /\ streamBefore = StaleStream
    /\ returned = "thrown"
    /\ thrown = RootKindError
    /\ jsonContentsAsBinaryStream = StaleStream


(***************************************************************************)
(* BIN documents read from a file.  A document is the int32 total length,  *)
(* the elements (type tag, key, 0x00, payload) and the closing 0x00.       *)
(***************************************************************************)
MaxElements == 2

Int32Bytes(n) == LittleEndian(FALSE, DecimalDigits(n), 4)

\* payloads by type tag
StringPayload(text) == Int32Bytes(Len(text) + 1) \o text \o <<0>>
BinaryPayload(subtype, data) == Int32Bytes(Len(data)) \o <<subtype>> \o data
EmptyDocument == Int32Bytes(5) \o <<0>>
ArrayOfTrue == Int32Bytes(9) \o <<8, CH_0, 0, 1, 0>>

StringTexts == {<<>>, <<CH_a>>, [i \in 1..16 |-> CH_a]}
Subtypes == {0, 1, 2, 128}
\* binary data: no byte, a byte that is a digit in ASCII, two bytes
BinaryData == {<<>>, <<CH_0 + 1>>, <<CH_0 + 1, CH_UPPER_A>>}

Payloads ==
    {[tag |-> 10, payload |-> <<>>], [tag |-> 8, payload |-> <<1>>],
     [tag |-> 4, payload |-> ArrayOfTrue],
     [tag |-> 3, payload |-> EmptyDocument],
     [tag |-> 6, payload |-> <<>>], [tag |-> 127, payload |-> <<>>],
     [tag |-> 255, payload |-> <<>>]}
    \cup {[tag |-> 2, payload |-> StringPayload(text)] : text \in StringTexts}
    \cup {[tag |-> 5, payload |-> BinaryPayload(subtype, <<7>>)] : subtype \in Subtypes}
    \cup {[tag |-> 5, payload |-> BinaryPayload(subtype, data)] :
              subtype \in {0, 2}, data \in BinaryData}

\* a key may hold any byte but 0x00
BinKeys == {<<CH_a>>, <<CH_b>>, <<2, 107>>}

Elements == {[tag |-> p.tag, key |-> key, payload |-> p.payload] :
                 p \in Payloads, key \in BinKeys}

ElementBytes(e) == <<e.tag>> \o e.key \o <<0>> \o e.payload

RECURSIVE Concat(_)
Concat(seqs) == IF seqs = <<>> THEN <<>> ELSE Head(seqs) \o Concat(Tail(seqs))

Document(elements) ==
    BSONFile(Concat([i \in 1..Len(elements) |-> ElementBytes(elements[i])]) \o <<0>>)

ElementLists == UNION {[1..n -> Elements] : n \in 0..MaxElements}

\* the documents read, each with the elements it is made of
BinDocuments == {[elements |-> list, bytes |-> Document(list)] : list \in ElementLists}
BinInputs == {d.bytes : d \in BinDocuments}

\* a document is read, and the tree read is encoded again
ReadDocument ==
    /\ history = <<>>
    /\ \E fileBytes \in BinInputs : ParseFileOn(fileBytes)

EncodeRead ==
    /\ history = <<"ParseFile">>
    /\ returned = "true"
    /\ ConvertJSONToBSONCall

InitDecode == \E tree \in {NullValue, OldValue} : Fresh(tree, <<>>)
NextDecode ==
    \/ ReadDocument
    \/ EncodeRead
SpecDecode == InitDecode /\ [][NextDecode]_vars

(***************************************************************************)
(* Properties of the decoder, checked under SpecDecode.                    *)
(***************************************************************************)
Unsupported(e) ==
    \/ e.tag \notin BSONTypes
    \/ e.tag = 5 /\ At(e.payload, 4) \notin {0, 2}

\* the document in fileContents was read
Read(d) == /\ history # <<>>
           /\ history[1] = "ParseFile"
           /\ fileContents = d.bytes

\* C11: a document with an element whose type tag the decoder does not
\* support, or with a binary element whose subtype is neither 0x00 nor 0x02,
\* makes ConvertBSONToJSON raise an error; it returns no text
C11_UnsupportedRejected ==
    \A d \in BinDocuments :
        (Read(d) /\ \E i \in 1..Len(d.elements) : Unsupported(d.elements[i]))
            => ConvertBSONToJSON(fileContents).thrown # ""

\* the embedded document with key 0x02 'k' after a Null member: the decoder
\* steps over its tag, reads the key as a string element and returns a text
C11_EmbeddedDocumentAccepted ==
    /\ called = "ParseFile"
    /\ fileContents = Document(<<[tag |-> 10, key |-> <<CH_a>>, payload |-> <<>>],
                                 [tag |-> 3, key |-> <<2, 107>>,
                                  payload |-> EmptyDocument]>>)
    /\ ~undefined
    /\ returned = "true"
    /\ ConvertBSONToJSON(fileContents).thrown = ""

\* a document whose first element is not supported is refused
FirstUnsupportedRejected ==
    \A d \in BinDocuments :
        (Read(d) /\ d.elements # <<>> /\ Unsupported(d.elements[1]))
            => ConvertBSONToJSON(fileContents).thrown # ""


\* the text of a string element
TextOf(e) == SubSeq(e.payload, 5, Len(e.payload) - 1)

\* printable ASCII without the quotation mark and the reverse solidus
Plain(text) ==
    \A i \in 1..Len(text) :
        text[i] \in (32..126) \ {CH_QUOTE, CH_BACKSLASH}

\* a document of string elements with keys in ascending order
FlatStrings(d) ==
    /\ \A i \in 1..Len(d.elements) :
          /\ d.elements[i].tag = 2
          /\ Len(TextOf(d.elements[i])) <= 126
          /\ Plain(TextOf(d.elements[i]))
    /\ \A i \in 1..Len(d.elements) - 1 :
          KeyLess(d.elements[i].key, d.elements[i + 1].key)

\* the Object the elements of a flat string document stand for
ObjectOfStrings(d) ==
    Container("Object",
              [i \in 1..Len(d.elements) |->
                  [key |-> d.elements[i].key,
                   value |-> havJSONData("String", TextOf(d.elements[i]))]])

\* C12: a document of string elements with keys in ascending order and plain
\* values of at most 126 bytes is read as the Object of its key/String pairs,
\* and the encoding of that Object after its four-byte length is the document
C12_FlatStringsReproduced ==
    \A d \in BinDocuments :
        (Read(d) /\ FlatStrings(d)) =>
            /\ ~undefined
            /\ called = "ParseFile" =>
                  (returned = "true" /\ valueNode = ObjectOfStrings(d))
            /\ called = "ConvertJSONToBSON" =>
                  /\ returned = "true"
                  /\ source = ObjectOfStrings(d)
                  /\ BSONFile(jsonContentsAsBinaryStream) = fileContents


\* the key 0x02 'k' of a string element comes back from the encoder as the
\* six bytes of its escape followed by 'k'
C12_KeyWrittenEscaped ==
    /\ history = <<"ParseFile", "ConvertJSONToBSON">>
    /\ fileContents = Document(<<[tag |-> 2, key |-> <<2, 107>>,
                                  payload |-> StringPayload(<<>>)]>>)
    /\ ~undefined
    /\ returned = "true"
    /\ source = Container("Object",
                  <<[key |-> <<2, 107>>, value |-> havJSONData("String", <<>>)]>>)
    /\ BSONFile(jsonContentsAsBinaryStream) # fileContents

\* the same with keys that are plain as well
PlainKeysReproduced ==
    \A d \in BinDocuments :
        (\A i \in 1..Len(d.elements) : Plain(d.elements[i].key))
            => ((Read(d) /\ FlatStrings(d)) =>
                  /\ ~undefined
                  /\ called = "ParseFile" =>
                        (returned = "true" /\ valueNode = ObjectOfStrings(d))
                  /\ called = "ConvertJSONToBSON" =>
                        /\ returned = "true"
                        /\ BSONFile(jsonContentsAsBinaryStream) = fileContents)


(***************************************************************************)
(* Literals.  A text that holds number and string literals as the members  *)
(* of one object or the elements of one array is parsed, and the tree read *)
(* is written compact.                                                     *)
(***************************************************************************)
\* integer literals: the small ones, and those next to the limits of the
\* 32-bit and the 64-bit kinds
IntegerMagnitudes ==
    {Digits(<<0>>), Digits(<<1>>), Digits(<<7>>), Digits(<<4, 2>>),
     Digits(<<0, 0, 7>>),
     Digits(<<2, 1, 4, 7, 4, 8, 3, 6, 4, 7>>), Mag_2_31,
     Digits(<<2, 1, 4, 7, 4, 8, 3, 6, 4, 9>>),
     Digits(<<4, 2, 9, 4, 9, 6, 7, 2, 9, 5>>), Mag_2_32,
     Digits(<<9, 2, 2, 3, 3, 7, 2, 0, 3, 6, 8, 5, 4, 7, 7, 5, 8, 0, 7>>), Mag_2_63,
     Digits(<<9, 2, 2, 3, 3, 7, 2, 0, 3, 6, 8, 5, 4, 7, 7, 5, 8, 0, 9>>),
     Digits(<<1, 8, 4, 4, 6, 7, 4, 4, 0, 7, 3, 7, 0, 9, 5, 5, 1, 6, 1, 5>>), Mag_2_64}

IntegerLiterals ==
    IntegerMagnitudes \cup {<<CH_MINUS>> \o m : m \in IntegerMagnitudes}

\* a \u escape of a 16-bit code unit, with the digits a..f in either case
FourHex(unit, upper) ==
    [i \in 1..4 |->
        LET d == (unit \div (16 ^ (4 - i))) % 16 IN
        IF d < 10 THEN CH_0 + d
        ELSE (IF upper THEN CH_UPPER_A ELSE CH_a) + (d - 10)]

UnicodeEscapeText(unit, upper) == <<CH_BACKSLASH, CH_u>> \o FourHex(unit, upper)

Quoted(body) == <<CH_QUOTE>> \o body \o <<CH_QUOTE>>

\* code units: U+0000, ASCII, two-byte and three-byte code points, the ends
\* of the ranges of the high and the low surrogates and of what surrounds them
CodeUnits == {0, 65, 233, 8364, 55295, 55296, 55357, 56319, 56320, 56832, 57343,
              57344, 65535}

\* what follows the characters \u when fewer than four hexadecimal digits do
ShortHex == {<<>>, <<CH_0 + 1, CH_0 + 2>>, <<90>>, <<CH_0 + 1, CH_0 + 2, CH_0 + 3>>,
             <<CH_0 + 1, CH_0 + 2, 71, CH_0 + 4>>, <<CH_a, CH_b, CH_0 + 1, CH_SPACE>>}

StringBodies ==
    {UnicodeEscapeText(u, up) : u \in CodeUnits, up \in BOOLEAN}
      \cup {UnicodeEscapeText(u, TRUE) \o UnicodeEscapeText(v, TRUE) :
               u \in CodeUnits, v \in CodeUnits}
      \cup {UnicodeEscapeText(u, TRUE) \o <<CH_a>> : u \in CodeUnits}
      \cup {UnicodeEscapeText(u, TRUE) \o <<CH_BACKSLASH, CH_n>> : u \in CodeUnits}
      \cup {<<CH_BACKSLASH, CH_u>> \o h : h \in ShortHex}
      \cup {<<CH_a, CH_BACKSLASH, CH_u>> \o h \o <<CH_b>> : h \in ShortHex}

StringLiterals == {Quoted(body) : body \in StringBodies}

MemberText(key, literal) ==
    <<CH_LCURLY>> \o Quoted(key) \o <<CH_COLON>> \o literal \o <<CH_RCURLY>>

ElementText(literal) == <<CH_LSQUARE>> \o literal \o <<CH_RSQUARE>>

LiteralTexts ==
    {MemberText(<<CH_a>>, l) : l \in IntegerLiterals \cup StringLiterals}
      \cup {ElementText(l \o <<CH_SPACE>>) : l \in IntegerLiterals}
      \cup {ElementText(l) : l \in StringLiterals}

\* the text is read
ReadLiteral ==
    /\ history = <<>>
    /\ \E text \in LiteralTexts : ParseContentCall(text)

\* the tree read is written compact
WriteLiteral ==
    /\ history = <<"ParseContent">>
    /\ returned = "true"
    /\ ConvertJSONToStringCall(FALSE)

InitLiteral == \E tree \in {NullValue, OldValue} : Fresh(tree, <<>>)
NextLiteral ==
    \/ ReadLiteral
    \/ WriteLiteral
SpecLiteral == InitLiteral /\ [][NextLiteral]_vars


(***************************************************************************)
(* Properties of the literals, checked under SpecLiteral.                  *)
(***************************************************************************)
\* non-negative integer literals that a signed 32-bit integer holds, written
\* without leading zeros
SmallLiterals ==
    {Digits(<<0>>), Digits(<<1>>), Digits(<<7>>), Digits(<<4, 2>>),
     Digits(<<2, 1, 4, 7, 4, 8, 3, 6, 4, 7>>)}

SmallMembers == {MemberText(<<CH_a>>, l) : l \in SmallLiterals}

\* the object with the one member "a" of the given kind and decimal text
ObjectWith(kind, text) == Container("Object", <<Member(<<CH_a>>, havJSONData(kind, text))>>)

\* fileContents is {"a":n} and has been read as the member a of that kind
ReadAs(kind) ==
    /\ returned = "true"
    /\ \E l \in SmallLiterals :
         /\ fileContents = MemberText(<<CH_a>>, l)
         /\ valueNode = ObjectWith(kind, l)

\* after a call of ParseContent, and after the compact writing that follows it
SmallMemberRead(kind) ==
    fileContents \in SmallMembers =>
      /\ called = "ParseContent" => ReadAs(kind)
      /\ called = "ConvertJSONToString" =>
           /\ source \in {ObjectWith(kind, l) : l \in SmallLiterals}
           /\ returned = "true"
           /\ jsonContentsAsString = fileContents

\* C13: the text {"a":n} with n a small non-negative integer literal is read
\* as the Object that maps a to the Int n, and the compact text of that Object
\* is the text read, byte for byte.
C13_SmallMemberIsInt == SmallMemberRead("Int")

\* C13 as the code has it: the member is read as the UInt n (a literal that
\* does not start with '-' is never an Int), and the compact text of the
\* Object is the text read, byte for byte.
C13_SmallMemberIsUInt == SmallMemberRead("UInt")

\* {"a":1} has been read and written again
C13_SmallMemberWritten ==
    /\ called = "ConvertJSONToString"
    /\ fileContents = MemberText(<<CH_a>>, Digits(<<1>>))
    /\ source = ObjectWith("UInt", Digits(<<1>>))
    /\ jsonContentsAsString = fileContents


HighSurrogates == {u \in CodeUnits : u >= 55296 /\ u <= 56319}
LowSurrogates == {u \in CodeUnits : u >= 56320 /\ u <= 57343}

\* {"a":"\uHHHH\uLLLL"} with the hexadecimal digits in the given case
PairText(high, low, upper) ==
    MemberText(<<CH_a>>, Quoted(UnicodeEscapeText(high, upper)
                                  \o UnicodeEscapeText(low, upper)))

Combined(high, low) == 65536 + ((high - 55296) * 1024) + (low - 56320)

\* a pair written with upper-case digits is read as the String of the four
\* UTF-8 bytes of the combined code point, and written compact as the same
\* pair with its digits in the case asked for
PairReadAndWritten(upper) ==
    \A high \in HighSurrogates, low \in LowSurrogates :
      fileContents = PairText(high, low, TRUE) =>
        /\ called = "ParseContent" =>
             /\ returned = "true"
             /\ valueNode = ObjectWith("String", UTF8(Combined(high, low)))
             /\ Len(UTF8(Combined(high, low))) = 4
        /\ called = "ConvertJSONToString" =>
             /\ returned = "true"
             /\ jsonContentsAsString = PairText(high, low, upper)

\* C14: a string written as a surrogate pair of escapes with upper-case
\* hexadecimal digits is read as the String of the four UTF-8 bytes of the
\* combined code point, and the compact text of the tree read is the text
\* read, byte for byte.
C14_PairReproduced == PairReadAndWritten(TRUE)

\* C14 as the code has it: the String read is as stated, and the compact text
\* holds the same two escapes with their hexadecimal digits in lower case.
C14_PairWrittenLowerCase == PairReadAndWritten(FALSE)

\* the pair of U+1F600, in upper case, has been read and written again
C14_PairWritten ==
    /\ called = "ConvertJSONToString"
    /\ returned = "true"
    /\ fileContents = PairText(55357, 56832, TRUE)
    /\ source = ObjectWith("String", <<240, 159, 152, 128>>)


\* the kinds an integer literal can be given, narrowest first, and the
\* magnitudes each holds
KindsOf(negative) ==
    IF negative THEN <<"Int", "Long", "Int64">> ELSE <<"UInt", "ULong", "UInt64">>

IsWide(kind) == \/ kind \in {"Int64", "UInt64"}
                \/ (kind \in {"Long", "ULong"} /\ LongIs64Bit)

RangeContains(kind, negative, magnitude) ==
    IF negative
    THEN ~MagLess(IF IsWide(kind) THEN Mag_2_63 ELSE Mag_2_31, magnitude)
    ELSE MagLess(magnitude, IF IsWide(kind) THEN Mag_2_64 ELSE Mag_2_32)

\* the first kind whose range contains the value, "none" when no kind does
Narrowest(negative, magnitude) ==
    LET kinds == KindsOf(negative)
        fits == {i \in 1..3 : RangeContains(kinds[i], negative, magnitude)}
    IN  IF fits = {} THEN "none"
        ELSE kinds[CHOOSE i \in fits : \A j \in fits : i <= j]

\* the texts of the specification that hold the literal
HoldersOf(literal) ==
    {MemberText(<<CH_a>>, literal), ElementText(literal \o <<CH_SPACE>>)}

\* the value of the one child of the container read
OnlyChild == valueNode.items[1].value

\* C15: an integer literal that starts with '-' is read as the first of Int,
\* Long and Int64 whose range contains it, any other integer literal as the
\* first of UInt, ULong and UInt64 whose range contains it, and a literal that
\* none of the three holds makes the parse fail.
C15_NarrowestKind ==
    \A literal \in IntegerLiterals :
      (called = "ParseContent" /\ fileContents \in HoldersOf(literal)) =>
        LET negative == Head(literal) = CH_MINUS
            magnitude == StripZeros(IF negative THEN Tail(literal) ELSE literal)
            kind == Narrowest(negative, magnitude)
        IN  IF kind = "none" THEN returned = "thrown" /\ valueNode = before
            ELSE /\ returned = "true"
                 /\ Len(valueNode.items) = 1
                 /\ OnlyChild = havJSONData(kind, DecimalText(negative, magnitude))

\* 4294967296, one more than a UInt holds, has been read as a UInt64
C15_WidenedOnOverflow ==
    /\ called = "ParseContent"
    /\ fileContents = MemberText(<<CH_a>>, Mag_2_32)
    /\ returned = "true"
    /\ OnlyChild = havJSONData("UInt64", Mag_2_32)

\* -9223372036854775809 has made the parse fail
C15_TooWideRejected ==
    /\ called = "ParseContent"
    /\ fileContents = ElementText(<<CH_MINUS>>
                        \o Digits(<<9, 2, 2, 3, 3, 7, 2, 0, 3, 6, 8, 5, 4, 7, 7, 5, 8, 0, 9>>)
                        \o <<CH_SPACE>>)
    /\ returned = "thrown"


\* the string bodies in which \u is followed by fewer than four hexadecimal
\* digits
ShortEscapes ==
    {<<CH_BACKSLASH, CH_u>> \o h : h \in ShortHex}
      \cup {<<CH_a, CH_BACKSLASH, CH_u>> \o h \o <<CH_b>> : h \in ShortHex}

ShortEscapeTexts ==
    {MemberText(<<CH_a>>, Quoted(body)) : body \in ShortEscapes}
      \cup {ElementText(Quoted(body)) : body \in ShortEscapes}

\* C19: a string literal in which \u is followed by fewer than four
\* hexadecimal digits makes the lexer fail with an error; no String is read
\* from it.
C19_ShortEscapeRejected ==
    (called = "ParseContent" /\ fileContents \in ShortEscapeTexts) =>
        /\ returned = "thrown"
        /\ valueNode = before

\* {"a":"\u12"} has been read as the String u12
C19_ShortEscapeKept ==
    /\ called = "ParseContent"
    /\ fileContents = MemberText(<<CH_a>>, Quoted(<<CH_BACKSLASH, CH_u, CH_0 + 1, CH_0 + 2>>))
    /\ returned = "true"
    /\ valueNode = ObjectWith("String", <<CH_u, CH_0 + 1, CH_0 + 2>>)

\* no text with a short escape is rejected
ShortEscapeAlwaysRead ==
    (called = "ParseContent" /\ fileContents \in ShortEscapeTexts) => returned = "true"


IsHigh(unit) == unit >= 55296 /\ unit <= 56319
IsLow(unit) == unit >= 56320 /\ unit <= 57343

\* what two escapes in a row stand for: one code point when they are a high
\* and a low surrogate, their own code points otherwise
TwoEscapes(first, second) ==
    IF IsHigh(first) /\ IsLow(second) THEN UTF8(Combined(first, second))
    ELSE UTF8(first) \o UTF8(second)

ReadAsString(body, string) ==
    (called = "ParseContent"
       /\ fileContents \in {MemberText(<<CH_a>>, Quoted(body)), ElementText(Quoted(body))}) =>
        /\ returned = "true"
        /\ Len(valueNode.items) = 1
        /\ OnlyChild = havJSONData("String", string)

\* the escapes of the units in U, alone, in pairs, and followed by a
\* character or by another escape, are read as the claim states
EscapesDecoded(U) ==
    /\ \A unit \in U, upper \in BOOLEAN :
         ReadAsString(UnicodeEscapeText(unit, upper), UTF8(unit))
    /\ \A unit \in U :
         /\ ReadAsString(UnicodeEscapeText(unit, TRUE) \o <<CH_a>>, UTF8(unit) \o <<CH_a>>)
         /\ ReadAsString(UnicodeEscapeText(unit, TRUE) \o <<CH_BACKSLASH, CH_n>>,
                         UTF8(unit) \o <<CH_LF>>)
    /\ \A first \in U, second \in U :
         ReadAsString(UnicodeEscapeText(first, TRUE) \o UnicodeEscapeText(second, TRUE),
                      TwoEscapes(first, second))

\* C20: an escape in D800..DBFF directly followed by an escape in DC00..DFFF
\* stands for the code point 0x10000 + (high - 0xD800) * 0x400 + (low - 0xDC00);
\* every other escape of four hexadecimal digits, U+0000 and a high surrogate
\* followed by an escape outside DC00..DFFF among them, stands for its own
\* code point in UTF-8, and the scan goes on at the character after it.
C20_EscapesDecoded == EscapesDecoded(CodeUnits)

\* the escape of U+D83D followed by the escape of U+0041 has made the lexer
\* fail
C20_HighThenOtherRejected ==
    /\ called = "ParseContent"
    /\ fileContents = MemberText(<<CH_a>>, Quoted(UnicodeEscapeText(55357, TRUE)
                                                    \o UnicodeEscapeText(65, TRUE)))
    /\ returned = "thrown"
    /\ thrown = "Invalid code point range for UTF-16 low surrogate pair!"

\* the escape of U+0000 has been read as the empty String
NulEscapeLost ==
    /\ called = "ParseContent"
    /\ fileContents = MemberText(<<CH_a>>, Quoted(UnicodeEscapeText(0, TRUE)))
    /\ returned = "true"
    /\ OnlyChild = havJSONData("String", <<>>)

\* what is left of the claim: without U+0000 and without a high surrogate in
\* front of another escape
NoHighNoNul == {u \in CodeUnits : u # 0 /\ ~IsHigh(u)}

OtherEscapesDecoded ==
    /\ EscapesDecoded(NoHighNoNul)
    /\ \A high \in HighSurrogates, low \in LowSurrogates :
         ReadAsString(UnicodeEscapeText(high, TRUE) \o UnicodeEscapeText(low, TRUE),
                      UTF8(Combined(high, low)))
    /\ \A high \in HighSurrogates :
         ReadAsString(UnicodeEscapeText(high, TRUE) \o <<CH_a>>, UTF8(high) \o <<CH_a>>)


(***************************************************************************)
(* havJSONData as the caller uses it: nodes made with std::make_shared,    *)
(* put into one another with push_back, push_front and insert, read with   *)
(* the accessors and written with ConvertJSONToString.  An operation takes *)
(* the node it is called on and gives the node as it leaves it, or the     *)
(* message of the std::runtime_error it throws.                            *)
(***************************************************************************)
MaxNodes == 2
MaxInserts == 2

Changed(node) == [thrown |-> "", node |-> node]

\* void push_back(std::shared_ptr<havJSONData> newValue)
push_back(node, newValue) ==
    IF node.type = "Array"
    THEN Changed([node EXCEPT !.items = Append(@, [key |-> <<>>, id |-> newValue])])
    ELSE Thrown("Value is not an array!")

\* void push_front(std::shared_ptr<havJSONData> newValue)
push_front(node, newValue) ==
    IF node.type = "Array"
    THEN Changed([node EXCEPT !.items = <<[key |-> <<>>, id |-> newValue]>> \o @])
    ELSE Thrown("Value is not an array!")

\* void insert(int index, std::shared_ptr<havJSONData> newValue), with index
\* no greater than the size of the array
insertAtIndex(node, index, newValue) ==
    IF node.type = "Array"
    THEN Changed([node EXCEPT !.items = InsertAt(@, index, <<[key |-> <<>>, id |-> newValue]>>)])
    ELSE Thrown("Value is not an array!")

\* void insert(std::string key, std::shared_ptr<havJSONData> newValue)
insertAtKey(node, key, newValue) ==
    IF node.type = "Object"
    THEN Changed([node EXCEPT !.items = MapInsert(@, [key |-> key, id |-> newValue])])
    ELSE Thrown("Value is not an object!")

\* remove(key) with the erase applied to the map the node holds
removeInPlace(node, key) ==
    IF node.type = "Object"
    THEN [thrown |-> "",
          node |-> [node EXCEPT !.items = SelectSeq(@, LAMBDA item : item.key # key)],
          value |-> SelectSeq(node.items, LAMBDA item : item.key # key)]
    ELSE [thrown |-> "Value is not an object!", node |-> node, value |-> <<>>]

\* void remove(const std::string& key): value is the local variable of that
\* name, initialised with the map std::get gives (auto without a reference
\* makes it a copy); the erase is applied to it, and it is gone at the return
remove(node, key) ==
    IF node.type = "Object"
    THEN LET value == node.items IN
         [thrown |-> "",
          node |-> node,
          value |-> IF HasKey(value, key)
                    THEN SelectSeq(value, LAMBDA item : item.key # key)
                    ELSE value]
    ELSE [thrown |-> "Value is not an object!", node |-> node, value |-> <<>>]

\* the nodes whose std::shared_ptr a container holds, and those it reaches
\* through any number of containers
Children(id) == {nodes[id].items[i].id : i \in 1..Len(nodes[id].items)}

RECURSIVE ReachedIn(_, _)
ReachedIn(from, steps) ==
    IF steps = 0 THEN from
    ELSE ReachedIn(from \cup UNION {Children(id) : id \in from}, steps - 1)

Descendants(id) == ReachedIn(Children(id), Len(nodes))

Cyclic(id) == id \in Descendants(id)

\* a walk down from the node never ends
Endless(id) == \E d \in {id} \cup Descendants(id) : Cyclic(d)

\* the calls that build values
Builders == {"", "make_shared", "push_back", "push_front", "insert"}

Inserts == Len(SelectSeq(history, LAMBDA name : name \in {"push_back", "push_front", "insert"}))

\* what a call on a node leaves behind
Call(name, outcome) ==
    /\ called \in Builders
    /\ history' = Append(history, name)
    /\ called' = name
    /\ returned' = outcome
    /\ undefined' = FALSE
    /\ UNCHANGED <<valueNode, fileContents, mTokens, jsonContentsAsBinaryStream,
                   streamBefore, before, formatted, tokensBefore, run>>

\* the keys of the members put into objects: the order of std::map is that of
\* the bytes, taken as unsigned
MapKeys == {<<CH_a>>, <<CH_b>>, <<CH_a, CH_b>>, <<66>>, <<195, 169>>}

\* the values the caller makes
NewValues ==
    {Container("Array", <<>>), Container("Object", <<>>), True,
     havJSONData("UInt", <<CH_0 + 1>>), havJSONData("Int", <<CH_MINUS, CH_0 + 1>>),
     havJSONData("String", <<CH_0 + 1, CH_0 + 2>>), havJSONData("String", Mag_2_32)}

\* std::make_shared<havJSONData>(value)
MakeShared ==
    /\ Len(nodes) < MaxNodes
    /\ \E value \in NewValues : nodes' = Append(nodes, value)
    /\ Call("make_shared", "true")
    /\ UNCHANGED <<thrown, jsonContentsAsString, source>>

\* a call of one of the four operations that put newValue into a node
Inserted(name, target, r) ==
    /\ Inserts < MaxInserts
    /\ nodes' = IF r.thrown = "" THEN [nodes EXCEPT ![target] = r.node] ELSE nodes
    /\ thrown' = r.thrown
    /\ Call(name, IF r.thrown = "" THEN "true" ELSE "thrown")
    /\ UNCHANGED <<jsonContentsAsString, source>>

PushBack ==
    \E target \in DOMAIN nodes, newValue \in DOMAIN nodes :
        Inserted("push_back", target, push_back(nodes[target], newValue))

PushFront ==
    \E target \in DOMAIN nodes, newValue \in DOMAIN nodes :
        Inserted("push_front", target, push_front(nodes[target], newValue))

InsertAtIndex ==
    \E target \in DOMAIN nodes, newValue \in DOMAIN nodes :
      \E index \in 0..Len(nodes[target].items) :
        Inserted("insert", target, insertAtIndex(nodes[target], index, newValue))

InsertAtKey ==
    \E target \in DOMAIN nodes, newValue \in DOMAIN nodes :
      \E key \in MapKeys :
        Inserted("insert", target, insertAtKey(nodes[target], key, newValue))

(***************************************************************************)
(* The accessors.  A call gives kind "value" when it returns what the node *)
(* holds or what its text converts to, "default" when it returns           *)
(* defaultValue, "thrown" with the message of the exception, and           *)
(* "undefined" when it reads an element that is not there.                 *)
(***************************************************************************)
Returns(kind) == [kind |-> kind, thrown |-> ""]
Throws(msg) == [kind |-> "thrown", thrown |-> msg]

\* std::string toString(): operator<< of the value held; the text of a double
\* is not modelled
toString(node) ==
    IF node.type \in {"Array", "Object"} THEN [thrown |-> "Unsupported type!", text |-> <<>>]
    ELSE IF node.type = "Double" THEN [thrown |-> "unmodelled", text |-> <<>>]
    ELSE [thrown |-> "", text |-> node.val]

\* the ranges of std::stoi, std::stol, std::stoll, std::stoul and std::stoull;
\* the unsigned ones take a '-' and negate
StoRange(T, n) ==
    LET wide == \/ T \in {"Int64", "UInt64"}
                \/ (T \in {"Long", "ULong", "UInt"} /\ LongIs64Bit)
    IN  IF T \in {"Int", "Long", "Int64"}
        THEN IF n.negative THEN ~MagLess(IF wide THEN Mag_2_63 ELSE Mag_2_31, n.magnitude)
             ELSE MagLess(n.magnitude, IF wide THEN Mag_2_63 ELSE Mag_2_31)
        ELSE \* toUInt reads with std::stoul
             MagLess(n.magnitude, IF wide THEN Mag_2_64 ELSE Mag_2_32)

\* a conversion that throws when the node is not of the kind asked for
convertToStrict(node, T, explicitCast) ==
    IF node.type = T THEN Returns("value") ELSE Throws("Value is not of this kind!")

\* T convertTo(bool explicitCast, T defaultValue), T named by the kind that
\* holds it
convertTo(node, T, explicitCast) ==
    IF explicitCast
    THEN \* std::get<T>(mValue), std::bad_variant_access caught
         IF node.type = T THEN Returns("value") ELSE Returns("default")
    ELSE With(toString(node), LAMBDA s :
           IF s.thrown # "" THEN Throws(s.thrown)
           ELSE IF T = "Boolean" THEN Returns("value")
           ELSE IF T = "Double"
             THEN IF FixedPrecision15(s.text).valid THEN Returns("value")
                  ELSE Throws("invalid_argument")
           ELSE With(ParseInteger(s.text), LAMBDA n :
                  IF ~n.valid THEN Throws("invalid_argument")
                  ELSE IF ~StoRange(T, n) THEN Throws("out_of_range")
                  ELSE Returns("value")))

NotAnArray == Throws("Value is not an array!")
NotAnObject == Throws("Value is not an object!")

\* operator[](int index) and at(int index)
subscript(node, index) ==
    IF node.type # "Array" THEN NotAnArray
    ELSE IF index < Len(node.items) THEN Returns("value") ELSE Returns("undefined")

at(node, index) ==
    IF node.type # "Array" THEN NotAnArray
    ELSE IF index < Len(node.items) THEN Returns("value") ELSE Throws("out_of_range")

\* front() and back()
front(node) ==
    IF node.type # "Array" THEN NotAnArray
    ELSE IF node.items # <<>> THEN Returns("value") ELSE Returns("undefined")

\* arraySize() and contains(std::shared_ptr<havJSONData>)
arraySize(node) == IF node.type # "Array" THEN NotAnArray ELSE Returns("value")

\* operator[](const std::string& key)
subscriptKey(node, key) ==
    IF node.type # "Object" THEN NotAnObject
    ELSE IF HasKey(node.items, key) THEN Returns("value")
    ELSE Throws("Key was not found in object!")

find(node, key) ==
    IF node.type # "Object" THEN NotAnObject
    ELSE IF HasKey(node.items, key) THEN Returns("value") ELSE Returns("undefined")

\* objectSize() and contains(const std::string& key)
objectSize(node) == IF node.type # "Object" THEN NotAnObject ELSE Returns("value")

Conversions ==
    [toBoolean |-> "Boolean", toInt |-> "Int", toUInt |-> "UInt", toLong |-> "Long",
     toULong |-> "ULong", toInt64 |-> "Int64", toUInt64 |-> "UInt64",
     toDouble |-> "Double"]

ConversionNames == DOMAIN Conversions
ArrayAccessors == {"operator[](int)", "at", "front", "back", "arraySize", "contains(pointer)"}
ObjectAccessors == {"operator[](key)", "find", "objectSize", "contains(key)"}
Accessors == (ConversionNames \X BOOLEAN) \cup ((ArrayAccessors \cup ObjectAccessors) \X {FALSE})

Access(node, name, explicitCast) ==
    IF name \in ConversionNames THEN convertTo(node, Conversions[name], explicitCast)
    ELSE IF name = "operator[](int)" THEN subscript(node, 0)
    ELSE IF name = "at" THEN at(node, 0)
    ELSE IF name \in {"front", "back"} THEN front(node)
    ELSE IF name \in {"arraySize", "contains(pointer)"} THEN arraySize(node)
    ELSE IF name = "operator[](key)" THEN subscriptKey(node, <<CH_a>>)
    ELSE IF name = "find" THEN find(node, <<CH_a>>)
    ELSE objectSize(node)

\* a call of an accessor on a node; source is the node and formatted the
\* explicitCast of the call
AccessCall ==
    \E id \in DOMAIN nodes, accessor \in Accessors :
      \E r \in {Access(nodes[id], accessor[1], accessor[2])} :
        /\ called \in Builders
        /\ history' = Append(history, accessor[1])
        /\ called' = accessor[1]
        /\ formatted' = accessor[2]
        /\ source' = nodes[id]
        /\ undefined' = (r.kind = "undefined")
        /\ IF r.kind = "undefined"
           THEN \E end \in {"crashed", "value", "thrown"} :
                  /\ returned' = end
                  /\ thrown' = IF end = "thrown" THEN "undefined behaviour" ELSE ""
           ELSE /\ returned' = r.kind
                /\ thrown' = r.thrown
        /\ UNCHANGED <<valueNode, fileContents, mTokens, jsonContentsAsString,
                       jsonContentsAsBinaryStream, streamBefore, before, nodes,
                       tokensBefore, run>>

\* a call of remove(key) on a node; source is the node as it was before the
\* call and fileContents the key
RemoveKey ==
    \E id \in DOMAIN nodes, key \in MapKeys :
      \E r \in {remove(nodes[id], key)} :
        /\ called \in Builders
        /\ history' = Append(history, "remove")
        /\ called' = "remove"
        /\ source' = nodes[id]
        /\ fileContents' = key
        /\ nodes' = [nodes EXCEPT ![id] = r.node]
        /\ undefined' = FALSE
        /\ returned' = IF r.thrown = "" THEN "true" ELSE "thrown"
        /\ thrown' = r.thrown
        /\ UNCHANGED <<valueNode, mTokens, jsonContentsAsString,
                       jsonContentsAsBinaryStream, streamBefore, before, formatted,
                       tokensBefore, run>>

\* ConvertJSONToString(*node, out, false): TokenizeArray and TokenizeObject
\* call themselves for every container they meet, without end when a
\* container below the node holds itself
WriteNode ==
    \E id \in DOMAIN nodes :
      /\ called \in Builders
      /\ nodes[id].type \in {"Array", "Object"}
      /\ history' = Append(history, "compact")
      /\ called' = "ConvertJSONToString"
      /\ formatted' = FALSE
      /\ undefined' = FALSE
      /\ IF Endless(id)
         THEN /\ returned' = "crashed"
              /\ thrown' = ""
              /\ UNCHANGED <<jsonContentsAsString, source>>
         ELSE \E r \in {ConvertJSONToString(Materialise(nodes, id), FALSE)} :
              /\ source' = Materialise(nodes, id)
              /\ returned' = IF r.thrown # "" THEN "thrown"
                             ELSE IF r.returned THEN "true" ELSE "false"
              /\ thrown' = r.thrown
              /\ jsonContentsAsString' = r.text
      /\ UNCHANGED <<valueNode, fileContents, mTokens, jsonContentsAsBinaryStream,
                     streamBefore, before, nodes, tokensBefore, run>>

\* texts of objects whose members are in no order, with keys that repeat
RECURSIVE MembersText(_)
MembersText(members) ==
    IF members = <<>> THEN <<>>
    ELSE Quoted(Head(members)[1]) \o <<CH_COLON>> \o Head(members)[2]
           \o (IF Len(members) > 1 THEN <<CH_COMMA>> ELSE <<>>)
           \o MembersText(Tail(members))

ObjectText(members) == <<CH_LCURLY>> \o MembersText(members) \o <<CH_RCURLY>>

MemberValues == {StrTrue, StrFalse}

Pair(key, text) == <<key, text>>

InnerText == ObjectText(<<Pair(<<CH_b>>, StrTrue), Pair(<<CH_a>>, StrNull)>>)

KeyTexts ==
    {ObjectText(<<Pair(k1, StrTrue), Pair(k2, v2)>>) :
        k1 \in MapKeys, k2 \in MapKeys, v2 \in MemberValues}
      \cup {ObjectText(<<Pair(k1, StrTrue), Pair(k2, StrFalse), Pair(k1, StrNull)>>) :
              k1 \in MapKeys, k2 \in MapKeys}
      \cup {ObjectText(<<Pair(k, InnerText), Pair(<<CH_a>>, StrTrue)>>) : k \in MapKeys}

\* a text is read into valueNode, and valueNode is written
ReadMembers ==
    /\ history = <<>>
    /\ \E text \in KeyTexts : ParseContentCall(text)

WriteMembers ==
    /\ history = <<"ParseContent">>
    /\ returned = "true"
    /\ ConvertJSONToStringCall(FALSE)

InitValue == Fresh(NullValue, <<>>)
NextValue ==
    \/ MakeShared
    \/ PushBack
    \/ PushFront
    \/ InsertAtIndex
    \/ InsertAtKey
    \/ AccessCall
    \/ RemoveKey
    \/ WriteNode
    \/ ReadMembers
    \/ WriteMembers
SpecValue == InitValue /\ [][NextValue]_vars


(***************************************************************************)
(* Properties of the values, checked under SpecValue.                      *)
(***************************************************************************)
\* a comes before b in the order of the bytes: at the first place where they
\* differ a has the smaller byte, or a is a proper beginning of b
Precedes(a, b) ==
    \/ /\ Len(a) < Len(b)
       /\ \A i \in 1..Len(a) : a[i] = b[i]
    \/ \E i \in 1..Len(a) :
         /\ i <= Len(b)
         /\ a[i] < b[i]
         /\ \A j \in 1..(i - 1) : a[j] = b[j]

KeysAscend(items) ==
    \A i \in 1..Len(items), j \in 1..Len(items) :
        i < j => Precedes(items[i].key, items[j].key)

\* every object of a tree
RECURSIVE ObjectsAscend(_)
ObjectsAscend(tree) ==
    /\ tree.type = "Object" => KeysAscend(tree.items)
    /\ \A i \in 1..Len(tree.items) : ObjectsAscend(tree.items[i].value)

\* the compact text of an object whose members are booleans and nulls, written
\* from the set of its members by taking the least key first
RECURSIVE LeastFirst(_)
LeastFirst(members) ==
    IF members = {} THEN <<>>
    ELSE LET least == CHOOSE m \in members :
                        \A other \in members \ {m} : Precedes(m.key, other.key)
         IN  <<Pair(ConvertToEscapedString(least.key).value, least.value.val)>>
               \o LeastFirst(members \ {least})

FlatObject(tree) ==
    /\ tree.type = "Object"
    /\ \A i \in 1..Len(tree.items) : tree.items[i].value.type \in {"Boolean", "Null"}

MembersOf(tree) == {tree.items[i] : i \in 1..Len(tree.items)}

\* C16: the keys of every object, of those the caller fills with
\* insert(key, value) and of those the parser builds from a text in which keys
\* come in any order and repeat, are pairwise distinct and ascend in the order
\* of their bytes, and ConvertJSONToString writes the members in that order.
C16_KeysAscend ==
    /\ \A id \in DOMAIN nodes : nodes[id].type = "Object" => KeysAscend(nodes[id].items)
    /\ ObjectsAscend(valueNode)
    /\ (called = "ConvertJSONToString" /\ returned = "true" /\ FlatObject(source)) =>
          jsonContentsAsString = ObjectText(LeastFirst(MembersOf(source)))

\* the members b and a were put into an object in this order, and the
\* object has been written
C16_InsertedOutOfOrder ==
    /\ called = "ConvertJSONToString"
    /\ returned = "true"
    /\ history = <<"make_shared", "make_shared", "insert", "insert", "compact">>
    /\ source = Container("Object", <<Member(<<CH_a>>, True), Member(<<CH_b>>, True)>>)
    /\ nodes[2] = True

\* a text with a repeated key and its keys in descending order has been read
\* and written
C16_RepeatedKeyRead ==
    /\ called = "ConvertJSONToString"
    /\ fileContents = ObjectText(<<Pair(<<195, 169>>, StrTrue), Pair(<<66>>, StrFalse),
                                   Pair(<<195, 169>>, StrNull)>>)
    /\ source = Container("Object", <<Member(<<66>>, havJSONData("Boolean", StrFalse)),
                                      Member(<<195, 169>>, True)>>)


\* the kind an accessor requires
Requires(name) ==
    IF name \in ConversionNames THEN Conversions[name]
    ELSE IF name \in ArrayAccessors THEN "Array"
    ELSE "Object"

AccessorNames == ConversionNames \cup ArrayAccessors \cup ObjectAccessors

\* an accessor has been called on a node of another kind than it requires
Mismatch == called \in AccessorNames /\ source.type # Requires(called)

StartsWithNumber(text) ==
    \/ (text # <<>> /\ IsDigit(text[1]))
    \/ (Len(text) > 1 /\ text[1] \in {CH_MINUS, CH_PLUS} /\ IsDigit(text[2]))

\* the conversions that read the text into 32 bits: std::stoi, and std::stol
\* and std::stoul with the long of the model
ReadInto32Bits ==
    {"toInt"} \cup (IF LongIs64Bit THEN {} ELSE {"toUInt", "toLong", "toULong"})

C17_TextConverted ==
    /\ called = "toInt"
    /\ ~formatted
    /\ source = havJSONData("String", <<CH_0 + 1, CH_0 + 2>>)
    /\ returned = "value"

\* find on an array has failed
C17_ContainerAccessorFailed ==
    /\ called = "find"
    /\ source.type = "Array"
    /\ returned = "thrown"
    /\ thrown = "Value is not an object!"

\* C18: no container is reachable from itself, whatever was put into what
\* with push_back, push_front and insert, and whatever was parsed.
C18_Acyclic == \A id \in DOMAIN nodes : ~Cyclic(id)

\* an array has been put into itself with push_back, and the call returned
C18_PutIntoItself ==
    /\ called = "push_back"
    /\ returned = "true"
    /\ nodes = <<Container("Array", <<[key |-> <<>>, id |-> 1]>>)>>

\* an object has been put into an array it holds
C18_PutIntoDescendant ==
    /\ called = "push_front"
    /\ returned = "true"
    /\ Len(nodes) = 2
    /\ nodes[1] = Container("Object", <<[key |-> <<CH_a>>, id |-> 2]>>)
    /\ nodes[2] = Container("Array", <<[key |-> <<>>, id |-> 1]>>)

\* an insertion fails only when the node it is called on is of the wrong kind
OnlyKindRejected ==
    (called \in {"push_back", "push_front", "insert"} /\ returned = "thrown") =>
        thrown \in {"Value is not an array!", "Value is not an object!"}


(***************************************************************************)
(* The shape of the formatted text, checked under SpecText.                *)
(* Indented(value, depth) is the text the documentation describes for a    *)
(* value that stands at nesting depth depth: every element and every       *)
(* member on a line of its own, indented by four spaces for each level,    *)
(* a comma at the end of the line, the closing bracket on a line of its    *)
(* own at the depth of the line that opened it.                            *)
(***************************************************************************)
RECURSIVE Indented(_, _)
RECURSIVE IndentedItems(_, _, _, _)
IndentedItems(items, index, isObject, depth) ==
    IF index > Len(items) THEN <<>>
    ELSE Spaces(4 * depth)
         \o (IF isObject
             THEN TokenText(ValuedTok("String", items[index].key)).text
                  \o <<CH_COLON, CH_SPACE>>
             ELSE <<>>)
         \o Indented(items[index].value, depth)
         \o (IF index < Len(items) THEN <<CH_COMMA>> ELSE <<>>)
         \o NewLine
         \o IndentedItems(items, index + 1, isObject, depth)

Indented(value, depth) ==
    IF value.type = "Array"
    THEN <<CH_LSQUARE>> \o NewLine
         \o IndentedItems(value.items, 1, FALSE, depth + 1)
         \o Spaces(4 * depth) \o <<CH_RSQUARE>>
    ELSE IF value.type = "Object"
    THEN <<CH_LCURLY>> \o NewLine
         \o IndentedItems(value.items, 1, TRUE, depth + 1)
         \o Spaces(4 * depth) \o <<CH_RCURLY>>
    ELSE TokenText(ScalarToken(value)).text

\* no container of the tree is empty
RECURSIVE NoneEmpty(_)
NoneEmpty(value) ==
    value.type \in {"Array", "Object"} =>
        /\ value.items # <<>>
        /\ \A i \in 1..Len(value.items) : NoneEmpty(value.items[i].value)

\* every item of the container is a scalar
Flat(value) ==
    \A i \in 1..Len(value.items) : value.items[i].value.type \notin {"Array", "Object"}

WrittenFormatted ==
    /\ called = "ConvertJSONToString"
    /\ formatted
    /\ returned = "true"

TrueFalseNull ==
    Container("Array", <<[key |-> <<>>, value |-> havJSONData("Boolean", StrTrue)],
                         [key |-> <<>>, value |-> havJSONData("Boolean", StrFalse)],
                         [key |-> <<>>, value |-> NullValue]>>)

TrueFalseNullText ==
    <<CH_LSQUARE, CH_LF>> \o Spaces(4) \o StrTrue \o <<CH_COMMA, CH_LF>>
    \o Spaces(4) \o StrFalse \o <<CH_COMMA, CH_LF>>
    \o Spaces(4) \o StrNull \o <<CH_LF, CH_RSQUARE>>

\* C21: the formatted text of a tree whose containers all have items is the
\* indented text: one element or member on each line, four spaces for each
\* level of nesting, the comma at the end of the line, each closing bracket
\* on a line of its own at the depth of its container; and the formatted
\* text of [true,false,null] is the five lines of the documentation.
C21_PrettyShape ==
    /\ ConvertJSONToString(TrueFalseNull, TRUE).text = TrueFalseNullText
    /\ (WrittenFormatted /\ NoneEmpty(source))
         => jsonContentsAsString = Indented(source, 0)

\* an array that follows a scalar in an array was written on the scalar's
\* line, and the two closing brackets on one line
C21_ElementSharesLine ==
    /\ WrittenFormatted
    /\ source = Container("Array",
         <<[key |-> <<>>, value |-> havJSONData("Boolean", StrTrue)],
           [key |-> <<>>, value |->
              Container("Array", <<[key |-> <<>>, value |-> havJSONData("Boolean", StrTrue)]>>)]>>)
    /\ jsonContentsAsString =
         <<CH_LSQUARE, CH_LF>> \o Spaces(4) \o StrTrue
         \o <<CH_COMMA, CH_SPACE, CH_LSQUARE, CH_LF>> \o Spaces(8) \o StrTrue
         \o <<CH_LF>> \o Spaces(4) \o <<CH_RSQUARE, CH_RSQUARE>>

\* a container whose items are all scalars is written as the indented text
FlatShaped ==
    (WrittenFormatted /\ NoneEmpty(source) /\ Flat(source))
        => jsonContentsAsString = Indented(source, 0)


(***************************************************************************)
(* Binary data (type tag 0x05), checked under SpecDecode.                  *)
(***************************************************************************)
SubtypeOf(e) == At(e.payload, 4)
DataOf(e) == SubSeq(e.payload, 6, Len(e.payload))

\* the Array of the byte values of data
ByteArray(data) ==
    Container("Array",
              [i \in 1..Len(data) |->
                  [key |-> <<>>, value |-> havJSONData("UInt", DecimalDigits(data[i]))]])

\* d holds one element: binary data of subtype 0x00 or 0x02 under a key of
\* printable ASCII
OneBinary(d) ==
    /\ Len(d.elements) = 1
    /\ d.elements[1].tag = 5
    /\ SubtypeOf(d.elements[1]) \in {0, 2}
    /\ Plain(d.elements[1].key)

JustRead(d) == Read(d) /\ called = "ParseFile"

\* C22: a document whose only element is binary data of subtype 0x00 or
\* 0x02 is read as an Object with one member, the element's key, whose value
\* is the Array of the byte values of the data, in order
C22_BinaryIsByteArray ==
    \A d \in BinDocuments :
        (JustRead(d) /\ OneBinary(d))
            => /\ returned = "true"
               /\ valueNode =
                    Container("Object",
                              <<[key |-> d.elements[1].key,
                                 value |-> ByteArray(DataOf(d.elements[1]))]>>)

\* the data 0x31 0x41 was rejected: its second byte was read as a type tag
C22_SecondByteReadAsTag ==
    \E d \in BinDocuments :
        /\ JustRead(d) /\ OneBinary(d)
        /\ DataOf(d.elements[1]) = <<CH_0 + 1, CH_UPPER_A>>
        /\ returned = "thrown"
        /\ thrown = "Unsupported type!"

\* the data 0x31 was read as the Array of the number 1
C22_ByteReadAsDigit ==
    \E d \in BinDocuments :
        /\ JustRead(d) /\ OneBinary(d)
        /\ DataOf(d.elements[1]) = <<CH_0 + 1>>
        /\ returned = "true"
        /\ valueNode.items[1].value =
             Container("Array", <<[key |-> <<>>, value |-> havJSONData("UInt", <<CH_0 + 1>>)]>>)

\* binary data without a byte is read as the empty Array
EmptyBinaryRead ==
    \A d \in BinDocuments :
        (JustRead(d) /\ OneBinary(d) /\ DataOf(d.elements[1]) = <<>>)
            => /\ returned = "true"
               /\ valueNode.items[1].value = Container("Array", <<>>)


(***************************************************************************)
(* Strings in BIN.  SpecString encodes Objects whose members are strings:  *)
(* plain ones and ones ConvertToEscapedString rewrites.                    *)
(***************************************************************************)
StringValues ==
    {<<>>, <<CH_a>>, <<CH_a, CH_b>>, <<CH_QUOTE>>, <<CH_BACKSLASH>>,
     <<CH_a, CH_QUOTE>>, <<CH_LF>>, <<195, 169>>}

StringObjects ==
    {Container("Object", <<[key |-> key, value |-> havJSONData("String", text)]>>) :
        key \in Keys, text \in StringValues}
    \cup {Container("Object", <<[key |-> <<CH_a>>, value |-> havJSONData("String", first)],
                                [key |-> <<CH_b>>, value |-> havJSONData("String", second)]>>) :
            first \in StringValues, second \in StringValues}

EncodeStrings ==
    /\ history = <<>>
    /\ ConvertJSONToBSONCall

InitString ==
    \E tree \in StringObjects : \E stream \in {<<>>, StaleStream} : Fresh(tree, stream)
NextString == EncodeStrings
SpecString == InitString /\ [][NextString]_vars

\* the position of the first 0x00 at or after from, Len(bytes) + 1 if none
ZeroAt(bytes, from) ==
    LET zeros == {i \in from..Len(bytes) : bytes[i] = 0} IN
    IF zeros = {} THEN Len(bytes) + 1
    ELSE CHOOSE i \in zeros : \A j \in zeros : i <= j

\* bytes holds, from position index on, string elements (tag 0x02, key,
\* 0x00, four bytes of length, the string, 0x00) and the closing 0x00, and
\* the four bytes of every element are the little-endian count of the bytes
\* from the first byte of the string to its 0x00
RECURSIVE LengthsCount(_, _)
LengthsCount(bytes, index) ==
    IF index > Len(bytes) THEN FALSE
    ELSE IF bytes[index] = 0 THEN index = Len(bytes)
    ELSE LET keyEnd == ZeroAt(bytes, index + 1)
             textStart == keyEnd + 5
             textEnd == ZeroAt(bytes, textStart)
         IN  /\ bytes[index] = 2
             /\ textEnd <= Len(bytes)
             /\ SubSeq(bytes, keyEnd + 1, keyEnd + 4) = Int32Bytes(textEnd - textStart + 1)
             /\ LengthsCount(bytes, textEnd + 1)

Encoded ==
    /\ called = "ConvertJSONToBSON"
    /\ returned = "true"

Written == SubSeq(jsonContentsAsBinaryStream, Len(streamBefore) + 1,
                  Len(jsonContentsAsBinaryStream))

\* C23: in the bytes the encoder writes for an Object of strings, the four
\* bytes before each string are the little-endian int32 count of the bytes
\* of the string that follow, its closing 0x00 included
C23_LengthCountsBytes ==
    Encoded => LengthsCount(Written, 1)

\* the string `"` was written as the two bytes `\"`, and the length before
\* it is 2, which counts one byte and the 0x00
C23_EscapedNotCounted ==
    /\ Encoded
    /\ source = Container("Object",
                  <<[key |-> <<CH_a>>, value |-> havJSONData("String", <<CH_QUOTE>>)]>>)
    /\ Written = <<2, CH_a, 0, 2, 0, 0, 0, CH_BACKSLASH, CH_QUOTE, 0, 0>>

\* a string was written, and the four bytes the encoder puts before a
\* string of 126 bytes are 7F 00 00 00, before one of 127 bytes C2 80 00 00:
\* the UTF-8 bytes of the code point 128
C23_LengthWrittenAsUTF8 ==
    /\ Encoded
    /\ source.items[1].value.val = <<CH_a>>
    /\ SubSeq(Written, 3 + Len(source.items[1].key), 6 + Len(source.items[1].key))
         = LengthField(1)
    /\ LengthField(126) = Int32Bytes(127)
    /\ LengthField(127) = <<194, 128, 0, 0>>
    /\ Int32Bytes(128) = <<128, 0, 0, 0>>

\* a string shorter than 127 bytes that ConvertToEscapedString leaves as it
\* is has its bytes counted
Unescaped(tree) ==
    \A i \in 1..Len(tree.items) :
        /\ Plain(tree.items[i].value.val)
        /\ Len(tree.items[i].value.val) < 127

PlainStringsCounted ==
    (Encoded /\ Unescaped(source)) => LengthsCount(Written, 1)


(***************************************************************************)
(* Arrays in BIN, checked under SpecBSON.                                  *)
(***************************************************************************)
\* the type tag and the number of payload bytes of a scalar in BIN
TagOf(value) ==
    IF value.type = "Boolean" THEN 8
    ELSE IF value.type = "Null" THEN 10
    ELSE IF value.type = "String" THEN 2
    ELSE IF value.type = "Array" THEN 4
    ELSE 0

PayloadSize(value) ==
    IF value.type = "Boolean" THEN 1
    ELSE IF value.type = "String" THEN 4 + Len(value.val) + 1
    ELSE 0

\* the bytes of the elements of an array of scalars: a tag, a key of one
\* digit with its 0x00, and the payload
RECURSIVE ElementsSize(_)
ElementsSize(items) ==
    IF items = <<>> THEN 0
    ELSE 1 + 2 + PayloadSize(Head(items).value) + ElementsSize(Tail(items))

\* an Object whose members are Booleans, Nulls, strings and arrays of those
ObjectOfArrays(tree) ==
    /\ tree.type = "Object"
    /\ \A i \in 1..Len(tree.items) :
         LET member == tree.items[i].value IN
         /\ member.type \in {"Boolean", "Null", "String", "Array"}
         /\ \A j \in 1..Len(member.items) :
               member.items[j].value.type \in {"Boolean", "Null", "String"}

\* the positions in bytes where the array member key starts: 0x04, key, 0x00
KeyPositions(bytes, key) ==
    {p \in 1..(Len(bytes) - Len(key) - 1) :
        SubSeq(bytes, p, p + Len(key) + 1) = <<4>> \o key \o <<0>>}

\* the length of the array member is the four bytes after its key, it counts
\* itself, the elements and the 0x00, and the tag of the first element
\* follows it
LengthPlaced(bytes, member) ==
    \E p \in KeyPositions(bytes, member.key) :
        LET start == p + Len(member.key) + 2
            size == 4 + ElementsSize(member.value.items) + 1
        IN  /\ start + size - 1 <= Len(bytes)
            /\ SubSeq(bytes, start, start + 3) = Int32Bytes(size)
            /\ member.value.items # <<>>
                 => bytes[start + 4] = TagOf(member.value.items[1].value)
            /\ bytes[start + size - 1] = 0

\* the encoder was called with an empty vector and returned true, without
\* undefined behaviour
EncodedFromEmpty ==
    /\ called = "ConvertJSONToBSON"
    /\ returned = "true"
    /\ ~undefined
    /\ streamBefore = <<>>

\* C24: in the bytes written for an Object of scalars and arrays, every
\* array member has its length right after its key and before the tag of
\* its first element, wherever the member stands, and the length is 4 plus
\* the bytes of the elements plus 1
C24_LengthAfterKey ==
    (EncodedFromEmpty /\ ObjectOfArrays(source))
        => \A i \in 1..Len(source.items) :
              source.items[i].value.type = "Array"
                  => LengthPlaced(jsonContentsAsBinaryStream, source.items[i])

\* {"a": true, "b": [true]}: the length 09 00 00 00 was put after the tag of
\* the first element
C24_LengthAfterFirstTag ==
    /\ EncodedFromEmpty
    /\ source = Container("Object",
         <<Member(<<CH_a>>, True),
           Member(<<CH_b>>, Container("Array", <<[key |-> <<>>, value |-> True]>>))>>)
    /\ jsonContentsAsBinaryStream =
         <<8, CH_a, 0, 1, 4, CH_b, 0, 8, 9, 0, 0, 0, CH_0, 0, 1, 0, 0>>

\* an array member that no scalar member precedes has its length in place
NoScalarBefore(tree, i) ==
    \A j \in 1..(i - 1) : tree.items[j].value.type = "Array"

ArrayFirstPlaced ==
    (EncodedFromEmpty /\ ObjectOfArrays(source))
        => \A i \in 1..Len(source.items) :
              (source.items[i].value.type = "Array" /\ NoScalarBefore(source, i))
                  => LengthPlaced(jsonContentsAsBinaryStream, source.items[i])


(***************************************************************************)
(* remove(key), checked under SpecValue.                                   *)
(***************************************************************************)
\* C25: a call of remove(key) that returns leaves every node as it was: the
\* Object it was called on holds the same members as before, the member of
\* the key among them
C25_RemoveChangesNothing ==
    [][(called' = "remove" /\ returned' = "true") => nodes' = nodes]_vars

\* remove(key) returned on an Object that holds the key and another member,
\* and one of the nodes is still that Object
C25_KeyStillThere ==
    /\ called = "remove"
    /\ returned = "true"
    /\ source.type = "Object"
    /\ HasKey(source.items, fileContents)
    /\ Len(source.items) = 2
    /\ \E id \in DOMAIN nodes :
          /\ nodes[id] = source
          /\ find(nodes[id], fileContents).kind = "value"

\* remove(key) on a value that is not an Object throws
C25_RemoveOnArrayThrown ==
    /\ called = "remove"
    /\ source.type = "Array"
    /\ returned = "thrown"
    /\ thrown = "Value is not an object!"


(***************************************************************************)
(* One havJSONStream used for several calls of ParseContent.  The texts    *)
(* are some that parse, some for which the lexer or the builder returns    *)
(* false or throws with tokens still in mTokens, and some that run into    *)
(* undefined behaviour.                                                    *)
(***************************************************************************)
MaxCalls == 2

StreamTexts ==
    {<<CH_LSQUARE>> \o StrTrue \o <<CH_RSQUARE>>,
     <<CH_LCURLY>> \o StrA \o <<CH_COLON>> \o StrTrue \o <<CH_RCURLY>>,
     StrTrue,
     StrTrue \o <<CH_COMMA>> \o StrTrue,
     <<CH_LSQUARE, CH_QUOTE, CH_a>>,
     <<CH_LSQUARE, CH_COLON>> \o StrTrue \o <<CH_RSQUARE>>,
     <<CH_LSQUARE>> \o StrTrue \o <<CH_COMMA, CH_t, CH_r>>,
     <<CH_LCURLY>> \o StrA \o <<CH_COLON, CH_COLON>> \o StrTrue \o <<CH_RCURLY>>,
     <<CH_LSQUARE>> \o StrTrue \o <<CH_RSQUARE>> \o StrTrue,
     <<CH_RSQUARE>>,
     <<CH_LSQUARE, CH_RSQUARE>>,
     <<>>}

ParseAgain ==
    /\ Len(history) < MaxCalls
    /\ \E text \in StreamTexts : ParseContentCall(text)

InitStream == \E tree \in {NullValue, OldValue} : Fresh(tree, <<>>)
NextStream == ParseAgain
SpecStream == InitStream /\ [][NextStream]_vars

C26_ErrorMidwayLeftTokens ==
    /\ Len(history) = 1
    /\ returned = "thrown"
    /\ thrown = "Invalid string value!"
    /\ mTokens = <<StructuralTok("LeftSquareBracket")>>

\* the first call returned false and left five tokens
C26_FalseLeftTokens ==
    /\ Len(history) = 1
    /\ returned = "false"
    /\ Len(mTokens) = 5


(***************************************************************************)
(* The builder's reads of mTokens and tokenTypeReferences, checked under   *)
(* SpecParse.                                                              *)
(***************************************************************************)
\* the run of the builder on the tokens the lexer made of the text
BuilderOn(text) == ParseJSONContents(Tokenization(tokensBefore, text).mTokens)

\* the lexer handed the tokens of the text to the builder
Lexed(text) ==
    LET lexed == Tokenization(tokensBefore, text) IN
    lexed.thrown = "" /\ ~lexed.outOfRange /\ lexed.returned

\* the texts named with the property
UnsafeTexts ==
    {<<CH_LCURLY>>, <<CH_LSQUARE>>, <<CH_LCURLY>> \o StrA,
     <<CH_LSQUARE>> \o StrTrue \o <<CH_RSQUARE, CH_RSQUARE>>,
     <<CH_LSQUARE>> \o StrTrue \o <<CH_RSQUARE>> \o StrTrue}

\* C27: on the tokens of every text the lexer hands over, the builder reads
\* neither the front of an empty mTokens nor the top of an empty
\* tokenTypeReferences, and pops neither: its run has no undefined behaviour
C27_BuilderReadsNoEmptyContainer ==
    (Parsed /\ Lexed(fileContents)) => BuilderOn(fileContents).kind # "undefined"

\* [true]true: the builder read the top of the empty stack of containers
\* for the second true, which was still in the queue
C27_TopOfEmptyStackRead ==
    /\ Parsed /\ Lexed(fileContents)
    /\ fileContents = <<CH_LSQUARE>> \o StrTrue \o <<CH_RSQUARE>> \o StrTrue
    /\ undefined
    /\ BuilderOn(fileContents).kind = "undefined"
    /\ BuilderOn(fileContents).mTokens # <<>>

\* {"a": the builder read the front of the empty queue after the key
C27_FrontOfEmptyQueueRead ==
    /\ Parsed /\ Lexed(fileContents)
    /\ fileContents = <<CH_LCURLY>> \o StrA
    /\ undefined
    /\ BuilderOn(fileContents).mTokens = <<>>

\* each of the five texts named with the property runs into undefined
\* behaviour in the builder
UnsafeTextsUndefined ==
    (Parsed /\ fileContents \in UnsafeTexts)
        => (Lexed(fileContents) /\ undefined /\ BuilderOn(fileContents).kind = "undefined")


(***************************************************************************)
(* The position at which the decoder goes on after an array, checked under *)
(* SpecDecode.                                                             *)
(***************************************************************************)
\* the state of the loop of line 1896 when it starts on the bytes s
DecodeStart(s) ==
    [index |-> GetBSONValueSize(s, 0).index, typeMemory |-> <<>>,
     jsonContent |-> <<CH_LCURLY>>, thrown |-> "", undefined |-> FALSE]

\* the positions of the bytes the switch of line 1919 takes as a type tag
\* in the iteration after one that popped the last array frame (line 2559)
RECURSIVE ResumedAt(_, _, _)
ResumedAt(s, totalDocumentSize, d) ==
    IF \/ d.index >= totalDocumentSize
       \/ d.index + 1 = totalDocumentSize
       \/ /\ d.typeMemory # <<>>
          /\ d.typeMemory[Len(d.typeMemory)].mCurrentIndex
               > d.typeMemory[Len(d.typeMemory)].mTotalLength
       \/ ~Readable(s, d.index)
    THEN {}
    ELSE With(DecodeElement(s, d), LAMBDA e :
           IF e.thrown # "" \/ e.undefined THEN {}
           ELSE With([CloseArray(e) EXCEPT !.index = @ + 1], LAMBDA next :
                  (IF /\ e.typeMemory # <<>>
                      /\ next.typeMemory = <<>>
                      /\ next.index < totalDocumentSize
                      /\ next.index + 1 # totalDocumentSize
                   THEN {next.index} ELSE {})
                    \cup ResumedAt(s, totalDocumentSize, next)))

\* where element number i of a document begins, counted from zero
RECURSIVE OffsetOf(_, _)
OffsetOf(elements, i) ==
    IF i = 1 THEN 4
    ELSE OffsetOf(elements, i - 1) + Len(ElementBytes(elements[i - 1]))

\* the positions at which the decoder resumed in the document read
Resumed == ResumedAt(fileContents, GetBSONValueSize(fileContents, 0).valueSize,
                     DecodeStart(fileContents))

\* C28: in a document read whose first element is an array and which has a
\* second element, the byte taken as a type tag after the array's frame is
\* popped is the one that follows the array's closing 0x00, which is the
\* tag of the second element
C28_ResumesAfterArray ==
    \A d \in BinDocuments :
        (Read(d) /\ Len(d.elements) = 2 /\ d.elements[1].tag = 4)
            => Resumed = {OffsetOf(d.elements, 2)}

\* the array with key a, then the Boolean with key b: the decoder resumed
\* one byte after the tag 0x08, at the key, and refused the byte 'b' as a tag
C28_ResumedOnKey ==
    /\ called = "ParseFile"
    /\ fileContents = Document(<<[tag |-> 4, key |-> <<CH_a>>, payload |-> ArrayOfTrue],
                                 [tag |-> 8, key |-> <<CH_b>>, payload |-> <<1>>]>>)
    /\ Resumed = {OffsetOf(<<[tag |-> 4, key |-> <<CH_a>>, payload |-> ArrayOfTrue]>>, 2)
                    + 1}
    /\ At(fileContents, 16) = 8
    /\ At(fileContents, 17) = CH_b
    /\ ~undefined
    /\ returned = "thrown"
    /\ thrown = "Unsupported type!"

\* the array, then a member whose key begins with the byte 0x02: the key is
\* decoded as a string element
C28_KeyReadAsElement ==
    /\ called = "ParseFile"
    /\ \E e \in Elements :
         /\ e.key = <<2, 107>>
         /\ fileContents = Document(<<[tag |-> 4, key |-> <<CH_a>>,
                                       payload |-> ArrayOfTrue], e>>)
    /\ Resumed # {}
    /\ \A index \in Resumed : At(fileContents, index) = 2

\* a document that ends with its only array is read: nothing is decoded
\* after the pop
ArrayLastRead ==
    \A d \in BinDocuments :
        (Read(d) /\ Len(d.elements) = 1 /\ d.elements[1].tag = 4)
            => (returned = "true" /\ ~undefined /\ Resumed = {})


(***************************************************************************)
(* Byte buffers that are not whole documents: a file cut short, and a file *)
(* whose first four bytes declare more bytes than it has.                  *)
(***************************************************************************)
\* the elements of the whole documents: Null, Boolean, array, string and
\* binary data, all with the key a
WholeElements ==
    {e \in Elements : /\ e.key = <<CH_a>>
                      /\ e.tag \in {10, 8, 4, 2, 5}
                      /\ e.tag = 2 => Len(e.payload) <= 6
                      /\ e.tag = 5 => e.payload \in {BinaryPayload(0, <<>>),
                                                     BinaryPayload(0, <<CH_0 + 1>>)}}

WholeDocuments ==
    {Document(list) : list \in UNION {[1..n -> WholeElements] : n \in 0..MaxElements}}

\* the first size bytes of a file
Truncated(bytes, size) == SubSeq(bytes, 1, size)

\* the file with more declared in its first byte
Declared(bytes, more) == <<bytes[1] + more>> \o Tail(bytes)

MoreDeclared == {1, 2, 8}

Buffers ==
    WholeDocuments
      \cup UNION {{Truncated(bytes, size) : size \in 1..Len(bytes)} :
                     bytes \in WholeDocuments}
      \cup {Declared(bytes, more) : bytes \in WholeDocuments, more \in MoreDeclared}

\* ParseFile of a file that holds the bytes of a buffer
ReadBuffer ==
    /\ history = <<>>
    /\ \E fileBytes \in Buffers : ParseFileOn(fileBytes)

InitBuffer == Fresh(NullValue, <<>>)
NextBuffer == ReadBuffer
SpecBuffer == InitBuffer /\ [][NextBuffer]_vars

BufferRead == called = "ParseFile" /\ history = <<"ParseFile">>

\* C29: on every buffer ConvertBSONToJSON reads jsonStringStream at no index
\* above its size: its run has no undefined behaviour
C29_ReadsInsideBuffer ==
    BufferRead => (~undefined /\ ~ConvertBSONToJSON(fileContents).undefined)

\* a file of one byte: GetBSONValueSize reads index 3 of it
C29_ShortBufferReadPast ==
    /\ BufferRead
    /\ fileContents = <<5>>
    /\ ~Readable(fileContents, 3)
    /\ GetBSONValueSize(fileContents, 0).undefined
    /\ undefined

\* the document {"a":true} cut after the tag 0x08: the key scan ends on the
\* terminator at size(), and the Boolean is read one position above it
C29_TruncatedAfterTag ==
    /\ BufferRead
    /\ fileContents = Truncated(Document(<<[tag |-> 8, key |-> <<CH_a>>,
                                            payload |-> <<1>>]>>), 5)
    /\ GetBSONKey(fileContents, 4).index = Len(fileContents) + 1
    /\ undefined

\* a whole document with a larger declared length ran into undefined
\* behaviour
C29_DeclaredLengthExceeded ==
    /\ BufferRead
    /\ \E bytes \in WholeDocuments : \E more \in MoreDeclared :
         fileContents = Declared(bytes, more)
    /\ undefined

\* a file of three bytes: the four bytes of the length are inside, the
\* closing 0x00 of line 2586 is not
C29_ThreeBytesRead ==
    /\ BufferRead
    /\ Len(fileContents) = 3
    /\ ~GetBSONValueSize(fileContents, 0).undefined
    /\ undefined

\* the documents of one element are read inside the buffer
OneElementInside ==
    (BufferRead /\ \E e \in WholeElements : fileContents = Document(<<e>>))
        => (~undefined /\ returned = "true")


(***************************************************************************)
(* ParseContent followed one loop iteration at a time.  The call runs the  *)
(* loop of Tokenization (line 2612) and then the loop of ParseJSONContents *)
(* (line 2824) on one thread; mTokens is the queue of the stream after     *)
(* each iteration.                                                         *)
(***************************************************************************)
MaxRunChunks == 3

RunTexts == Texts(MaxRunChunks) \cup ExtraTexts \cup UnsafeTexts \cup LiteralTexts

Result(kind, message, node, tokens, root) ==
    [kind |-> kind, thrown |-> message, valueNode |-> node, mTokens |-> tokens,
     rootNode |-> root]

\* lines 3435-3455: what ParseContent makes of the end of ParseJSONContents
ResultOfBuilder(built) ==
    IF built.kind = "true"
      THEN Result("true", "", built.root, built.mTokens, built.root)
    ELSE IF built.kind = "false"
      THEN Result("false", "", NullValue, built.mTokens, built.root)
    ELSE Result(built.kind, built.thrown, valueNode, built.mTokens, built.root)

RunUnchanged ==
    UNCHANGED <<jsonContentsAsString, jsonContentsAsBinaryStream, streamBefore,
                source, formatted, nodes>>
CallUnchanged == UNCHANGED <<fileContents, called, history, before, tokensBefore>>
OutputUnchanged == UNCHANGED <<valueNode, returned, thrown, undefined>>

\* the call begins: Tokenization clears mTokens and sets its locals
StartParseOf(texts) ==
    /\ run.phase = "idle"
    /\ history = <<>>
    /\ \E text \in texts : fileContents' = text
    /\ history' = Append(history, "ParseContent")
    /\ called' = "ParseContent"
    /\ before' = valueNode
    /\ tokensBefore' = mTokens
    /\ mTokens' = LexerStart(mTokens).mTokens
    /\ run' = [run EXCEPT !.phase = "lexer", !.lexer = LexerStart(mTokens)]
    /\ OutputUnchanged
    /\ RunUnchanged

\* one iteration of the loop of Tokenization
LexStep ==
    /\ run.phase = "lexer"
    /\ run.lexer.index < Len(fileContents)
    /\ \E next \in {LexIteration(fileContents, run.lexer)} :
         IF next.thrown # ""
         THEN /\ run' = [run EXCEPT !.phase = "done", !.lexer = next,
                                    !.indexBefore = run.lexer.index,
                                    !.queueBefore = mTokens]
              /\ CallOver(Result("thrown", next.thrown, valueNode, next.mTokens,
                                NullValue))
         ELSE /\ run' = [run EXCEPT !.lexer = next,
                                    !.indexBefore = run.lexer.index,
                                    !.queueBefore = mTokens]
              /\ mTokens' = next.mTokens
              /\ OutputUnchanged
    /\ CallUnchanged
    /\ RunUnchanged

\* the loop of Tokenization is over: ParseContent returns false for no
\* token, and ParseJSONContents for a first token that opens no container
LexEnd ==
    /\ run.phase = "lexer"
    /\ run.lexer.index >= Len(fileContents)
    /\ IF run.lexer.outOfRange
       THEN /\ run' = [run EXCEPT !.phase = "done"]
            /\ CallOver(Result("undefined", "", valueNode, mTokens, NullValue))
       ELSE IF mTokens = <<>> \/ mTokens[1].mToken \notin OpeningTokens
       THEN /\ run' = [run EXCEPT !.phase = "done"]
            /\ CallOver(Result("false", "", NullValue, mTokens, NullValue))
       ELSE /\ run' = [run EXCEPT !.phase = "builder",
                                  !.builder = BuilderStart(mTokens)]
            /\ UNCHANGED mTokens
            /\ OutputUnchanged
    /\ CallUnchanged
    /\ RunUnchanged

\* one iteration of the loop of ParseJSONContents
BuildStep ==
    /\ run.phase = "builder"
    /\ run.builder.mTokens # <<>>
    /\ \E r \in {ParseIteration(run.builder)} :
         IF r.kind = "continue"
         THEN /\ run' = [run EXCEPT !.builder = r.p, !.queueBefore = mTokens]
              /\ mTokens' = r.p.mTokens
              /\ OutputUnchanged
         ELSE /\ run' = [run EXCEPT !.phase = "done", !.queueBefore = mTokens]
              /\ CallOver(ResultOfBuilder(r))
    /\ CallUnchanged
    /\ RunUnchanged

\* the queue is empty: the loop of ParseJSONContents is over
BuildEnd ==
    /\ run.phase = "builder"
    /\ run.builder.mTokens = <<>>
    /\ run' = [run EXCEPT !.phase = "done"]
    /\ CallOver(ResultOfBuilder(ParseLoop(run.builder)))
    /\ CallUnchanged
    /\ RunUnchanged

StartParse == StartParseOf(RunTexts)

InitRun == \E tree \in {NullValue, OldValue} : Fresh(tree, <<>>)
NextRun ==
    \/ StartParse
    \/ LexStep
    \/ LexEnd
    \/ BuildStep
    \/ BuildEnd
SpecRun == InitRun /\ [][NextRun]_vars

\* The thread that called ParseContent keeps running until the call is
\* over: the steps of a call are taken with weak fairness.  The texts of
\* these calls are the short ones.
MaxFairChunks == 2
FairTexts == Texts(MaxFairChunks) \cup ExtraTexts \cup UnsafeTexts
StartFair == StartParseOf(FairTexts)
NextFair ==
    \/ StartFair
    \/ LexStep
    \/ LexEnd
    \/ BuildStep
    \/ BuildEnd
FairRun == InitRun /\ [][NextFair]_vars /\ WF_vars(NextFair)

(***************************************************************************)
(* Properties of the run, checked under SpecRun and FairRun.               *)
(***************************************************************************)
Done == run.phase = "done"

\* an iteration of the lexer's loop that came to its end
LexIterated == run.phase = "lexer" /\ run'.phase = "lexer" /\ run' # run

\* an iteration of the builder's loop
BuildIterated ==
    /\ run.phase = "builder"
    /\ run.builder.mTokens # <<>>
    /\ run' # run

\* the call returned to its caller or raised an error
ReturnedOrRaised == Done /\ ~undefined /\ returned \in {"true", "false", "thrown"}

\* C30: every iteration of the loop of Tokenization ends at a larger index
\* than it began at, every iteration of the loop of ParseJSONContents takes
\* at least one token from mTokens or leaves the loop by a return or an
\* error, and the end of every call of ParseContent is a return or an error
C30_ParsingTerminates ==
    [][/\ LexIterated => run'.lexer.index > run.lexer.index
       /\ BuildIterated => (Len(mTokens') < Len(mTokens) \/ ReturnedOrRaised')
       /\ Done' => ReturnedOrRaised']_vars

\* [true]true: the third iteration of the builder read the top of the empty
\* stack before it took a token, and the process died
C30_DiedInIteration ==
    /\ Done
    /\ fileContents = <<CH_LSQUARE>> \o StrTrue \o <<CH_RSQUARE>> \o StrTrue
    /\ undefined
    /\ returned = "crashed"
    /\ mTokens # <<>>
    /\ mTokens = run.queueBefore

\* the lexer never steps back over an iteration
LexerAdvances == [][LexIterated => run'.lexer.index > run.lexer.index]_vars

\* an iteration of the builder that goes on to the next takes a token
BuilderConsumes ==
    [][(BuildIterated /\ run'.phase = "builder") => Len(mTokens') < Len(mTokens)]_vars

\* every step of a call brings its end nearer: the phases follow each other,
\* the lexer has fewer characters before it and the builder fewer tokens
Remaining ==
    CASE run.phase = "idle" -> 3
      [] run.phase = "lexer" -> 2
      [] run.phase = "builder" -> 1
      [] OTHER -> 0
RunShortens ==
    [][NextRun =>
         \/ Remaining' < Remaining
         \/ /\ run.phase = "lexer" /\ run'.phase = "lexer"
            /\ Len(fileContents) - run'.lexer.index < Len(fileContents) - run.lexer.index
         \/ /\ run.phase = "builder" /\ run'.phase = "builder"
            /\ Len(mTokens') < Len(mTokens)]_vars

\* the lexer's index stays within the text and one position past it
IndexInText ==
    run.phase = "lexer" => (run.lexer.index >= 0 /\ run.lexer.index <= Len(fileContents) + 1)

\* under the fairness of FairRun every call comes to an end
RunEnds == <>Done

\* the end of the run is an end of ParseContent
RunAgrees ==
    Done =>
      LET r == ParseContent(tokensBefore, fileContents, before) IN
      /\ undefined = (r.kind = "undefined")
      /\ mTokens = r.mTokens
      /\ ~undefined => (returned = r.kind /\ thrown = r.thrown /\ valueNode = r.valueNode)
      /\ undefined => /\ returned \in UndefinedEnds
                      /\ returned = "true" => valueNode = r.rootNode

\* an iteration of the lexer went over a number, whose scan steps back by one
C30_SteppedBackInNumber ==
    /\ run.phase = "lexer"
    /\ run.indexBefore < Len(fileContents)
    /\ At(fileContents, run.indexBefore) = CH_0 + 1
    /\ run.lexer.index > run.indexBefore
    /\ run.lexer.mTokens # run.queueBefore

=============================================================================
